---- MODULE Spec2Model ----
(***************************************************************************)
(* The smart-control cycle of the AirTouch 3 integration                   *)
(* (smart_control.py, handle_smart_control) together with the climate      *)
(* services it calls (climate.py).  A cycle is modelled from one await to  *)
(* the next: the program counter of a cycle names the awaited operation    *)
(* that is pending, and an action performs that operation and then runs    *)
(* the synchronous code up to the next await.                              *)
(***************************************************************************)
EXTENDS Integers, Sequences, FiniteSets, TLC

(***************************************************************************)
(* Program constants.                                                      *)
(***************************************************************************)
TEMP_ABOVE_THRESHOLD == 1
TEMP_BELOW_THRESHOLD == 2
AC_POWER_ON == 1
AC_POWER_OFF == 0

(***************************************************************************)
(* Bounds of the model.                                                    *)
(***************************************************************************)
\* number of zones the device lists
NZones == 2
\* set-point of every zone at the start
Desired0 == 22
\* number of cycles run in succession on unchanged data
MaxRuns == 2
\* number of readings that may change while a cycle is in flight
MaxDrift == 1
\* the calls of one set_zone_temperature retry loop that the record keeps
MaxTries == 3

\* a sensor's temperature is <<t>>, or <<>> when it is None (no data received yet)
None == <<>>

(***************************************************************************)
(* Strings are sequences of one-character strings, so that lower(),        *)
(* replace() and the substring test `in` are computed as Python does.      *)
(***************************************************************************)
UpperChars ==
    <<"A", "B", "C", "D", "E", "F", "G", "H", "I", "J", "K", "L", "M",
      "N", "O", "P", "Q", "R", "S", "T", "U", "V", "W", "X", "Y", "Z">>
LowerChars ==
    <<"a", "b", "c", "d", "e", "f", "g", "h", "i", "j", "k", "l", "m",
      "n", "o", "p", "q", "r", "s", "t", "u", "v", "w", "x", "y", "z">>

\* str.lower() on one character
ToLower ==
    [c \in {UpperChars[k] : k \in 1..Len(UpperChars)} |->
        LowerChars[CHOOSE k \in 1..Len(UpperChars) : UpperChars[k] = c]]

LowerChar(c) == IF c \in DOMAIN ToLower THEN ToLower[c] ELSE c

RECURSIVE CleanFrom(_, _)
CleanFrom(s, k) ==
    IF k > Len(s) THEN <<>>
    ELSE LET c == LowerChar(s[k])
         IN  IF c = "'" THEN CleanFrom(s, k + 1)
             ELSE <<(IF c = " " THEN "_" ELSE c)>> \o CleanFrom(s, k + 1)

\* zone display names as the device reports them
N_Living == <<"L", "i", "v", "i", "n", "g">>
N_Bed2 == <<"B", "e", "d", " ", "2">>
N_Study == <<"S", "t", "u", "d", "y">>
N_Master == <<"M", "a", "s", "t", "e", "r">>
N_Attic == <<"A", "t", "t", "i", "c">>
N_Attic1 == <<"A", "t", "t", "i", "c", " ", "1">>

ZoneNames == {N_Living, N_Bed2, N_Study, N_Master, N_Attic, N_Attic1}

\* the cleaned form of each of these names, computed once
CleanedZoneNames == [n \in ZoneNames |-> CleanFrom(n, 1)]

\* zone.name.lower().replace(' ', '_').replace("'", "")
CleanName(s) == IF s \in ZoneNames THEN CleanedZoneNames[s] ELSE CleanFrom(s, 1)

\* Python's  a in b  on strings
IsSubstring(a, b) ==
    \E k \in 0..(Len(b) - Len(a)) : SubSeq(b, k + 1, k + Len(a)) = a

\* the keys of ZONE_MAPPING; every key k maps to "switch." + k
K_living == <<"l", "i", "v", "i", "n", "g">>
K_study == <<"s", "t", "u", "d", "y">>
K_master == <<"m", "a", "s", "t", "e", "r">>
K_bed_2 == <<"b", "e", "d", "_", "2">>
K_bed_3 == <<"b", "e", "d", "_", "3">>
K_bed_4 == <<"b", "e", "d", "_", "4">>
K_attic_1 == <<"a", "t", "t", "i", "c", "_", "1">>
K_attic == <<"a", "t", "t", "i", "c">>

MappingKeys ==
    {K_living, K_study, K_master, K_bed_2, K_bed_3, K_bed_4, K_attic_1, K_attic}

\* ZONE_MAPPING: the key of an input_boolean to the name part of its switch
ZONE_MAPPING == [k \in MappingKeys |-> k]

\* the zone listing of the plain installation, cut to NZones zones
PlainLayout == SubSeq(<<N_Living, N_Bed2, N_Study, N_Master>>, 1, NZones)

\* the readings a sensor can hold: from the low threshold to the high threshold
Readings ==
    (Desired0 - TEMP_BELOW_THRESHOLD) .. (Desired0 + TEMP_ABOVE_THRESHOLD)

\* a zone's sensor list: empty, or one sensor with a reading or with none
SensorLists == {<<>>} \cup {<< <<r>> >> : r \in Readings} \cup {<<None>>}

VARIABLES
    zones,      \* vzduch_api.zones: the zone names in listing order; a zone's id is its position
    power,      \* vzduch_api.power
    status,     \* zone.status of every zone
    sensors,    \* zone.sensors of every zone (the readings)
    desired,    \* zone.desired_temperature of every zone
    toggles,    \* state of input_boolean.at3_zone_<key>, for the keys that exist
    cyc,        \* the handle_smart_control invocations: locals and position
    drifts,     \* number of readings that changed while a cycle was in flight
    svc         \* the call of a climate.py service or entity method: locals and position

vars == <<zones, power, status, sensors, desired, toggles, cyc, drifts, svc>>

ZoneIds == 1..Len(zones)

(***************************************************************************)
(* Entities of the host.  An entity id is the sequence of its parts, so    *)
(* that the  in  test of the climate handlers is a substring test.         *)
(***************************************************************************)
E_airtouch == <<"climate", ".", "airtouch3">>
E_other == <<"climate", ".", "other">>
E_ghost == <<"climate", ".", "ghost">>

\* zone_name_cleaned of every zone
CleanedNames(zs) == [z \in 1..Len(zs) |-> CleanName(zs[z])]

\* hass.states.async_entity_ids("switch"): the name part of each zone's switch entity
SwitchNames(zs) == {CleanName(zs[z]) : z \in 1..Len(zs)}

\* line 118: the switch matches the zone's cleaned name
SwitchMatches(sw, zname) == sw # <<>> /\ (sw = zname \/ IsSubstring(sw, zname))

\* switch_entity_to_zone_id: zones are visited in listing order and a later zone
\* overwrites the entry of a switch that matched an earlier one
SwitchEntityToZoneId(zs) ==
    LET cleaned == CleanedNames(zs)
        switches == SwitchNames(zs)
        hits == [sw \in switches |->
                    {z \in 1..Len(zs) : SwitchMatches(sw, cleaned[z])}]
    IN  [sw \in {x \in switches : hits[x] # {}} |->
            CHOOSE z \in hits[sw] : \A y \in hits[sw] : y <= z]

\* active_input_booleans.get(zone_part, False)
IsEnabled(tg, key) == key \in DOMAIN tg /\ tg[key] = "on"

\* controlled_zone_ids, as a set
ControlledZoneIds(zs, tg) ==
    LET m == SwitchEntityToZoneId(zs)
    IN  {m[ZONE_MAPPING[k]] : k \in {x \in MappingKeys :
                                       ZONE_MAPPING[x] \in DOMAIN m /\ IsEnabled(tg, x)}}

(***************************************************************************)
(* The device as the Device Client shows it, and the locals of a cycle.    *)
(***************************************************************************)
Dev == [power |-> power, status |-> status, sensors |-> sensors, desired |-> desired]

\* one entry of the record of what a cycle has awaited so far
Cmd(op, z, v, by) == [op |-> op, z |-> z, v |-> v, by |-> by]

Issue(l, c) == [l EXCEPT !.cmds = Append(@, c)]

\* the locals before the first call of handle_smart_control
IdleCycle ==
    [pc |-> "idle", outcome |-> "none", i |-> 0, ctl |-> {}, count |-> 0,
     anyBelow |-> FALSE, notify |-> FALSE, target |-> <<>>, cmds |-> <<>>,
     nfail |-> FALSE, failed |-> "", run |-> 0, snap |-> <<>>, bg |-> "none"]

\* return: the handler ends without raising
Return(l, why) == [l EXCEPT !.pc = "done", !.outcome = why, !.i = 0]

(***************************************************************************)
(* Lines 52-100: the preconditions.  env is what the handler reads from    *)
(* the call and from the host.                                             *)
(***************************************************************************)
\* climate_entity_id after lines 63-75; <<>> when none is resolvable
ResolveClimate(env) ==
    IF env.climateArg # <<>> THEN env.climateArg
    ELSE IF env.registry # <<>> THEN env.registry[1]
    ELSE <<>>

\* mutant: an absent automation toggle counts as on
PreconditionsAbsentIsOn(env) ==
    IF env.active = "off" THEN "inactive"
    ELSE IF ResolveClimate(env) = <<>> THEN "no_climate"
    ELSE IF ResolveClimate(env) \notin env.stateful THEN "no_state"
    ELSE IF env.data = "absent" THEN "no_domain"
    ELSE IF env.data = "empty" THEN "no_api"
    ELSE "ok"

Preconditions(env) ==
    IF env.active # "on" THEN "inactive"
    ELSE IF ResolveClimate(env) = <<>> THEN "no_climate"
    ELSE IF ResolveClimate(env) \notin env.stateful THEN "no_state"
    ELSE IF env.data = "absent" THEN "no_domain"
    ELSE IF env.data = "empty" THEN "no_api"
    ELSE "ok"

BeginCycle(l, d, env) ==
    LET fresh == [IdleCycle EXCEPT !.run = l.run + 1,
                                   !.notify = (env.notifyArg # ""),
                                   !.target = ResolveClimate(env),
                                   !.snap = <<d.power, d.status>>]
        why == Preconditions(env)
    IN  IF why = "ok" THEN [fresh EXCEPT !.pc = "refresh1"]
        ELSE Return([fresh EXCEPT !.target = <<>>, !.notify = FALSE], why)

(***************************************************************************)
(* Lines 154-159: zones outside the controlled list are switched off.      *)
(***************************************************************************)
\* mutant: the forced-off loop finds nothing to switch
NextForcedOffNone(l, d, k) == 0

\* the first zone from position k on that the forced-off loop switches, or 0
NextForcedOff(l, d, k) ==
    LET todo == {z \in k..Len(d.status) : z \notin l.ctl /\ d.status[z] = 1}
    IN  IF todo = {} THEN 0 ELSE CHOOSE z \in todo : \A y \in todo : z <= y

ForcedOffFrom(l, d, k) ==
    LET z == NextForcedOff(l, d, k)
    IN  IF z = 0 THEN [l EXCEPT !.pc = "refresh2", !.i = 0]
        ELSE [l EXCEPT !.pc = "force_off", !.i = z]

\* mutant: the safety check of lines 150-152 is missing
AfterRefresh1Unchecked(l, d, zs, tg) ==
    LET ctl == ControlledZoneIds(zs, tg)
        l1 == [Issue(l, Cmd("refresh", 0, 0, "first")) EXCEPT !.ctl = ctl]
    IN  ForcedOffFrom(l1, d, 1)

\* lines 102-152: after the first refresh, the controlled zones
AfterRefresh1(l, d, zs, tg) ==
    LET ctl == ControlledZoneIds(zs, tg)
        l1 == [Issue(l, Cmd("refresh", 0, 0, "first")) EXCEPT !.ctl = ctl]
    IN  IF ctl = {} THEN Return(l1, "no_zones")
        ELSE ForcedOffFrom(l1, d, 1)

\* a handler that closes the zone through its damper
AfterForcedOffByDamper(l, d) ==
    ForcedOffFrom(Issue(l, Cmd("damper", l.i, 0, "forced")), d, l.i + 1)

\* line 159 for the pending zone, then the rest of the loop
AfterForcedOff(l, d) ==
    ForcedOffFrom(Issue(l, Cmd("zone", l.i, 0, "forced")), d, l.i + 1)

(***************************************************************************)
(* Lines 167-241: the per-zone temperature rules.                          *)
(***************************************************************************)
\* lines 184-192: the zone has a sensor and its first sensor has a reading
HasReading(d, z) == d.sensors[z] # <<>> /\ d.sensors[z][1] # None

\* zone.sensors[0].temperature
ZoneTemp(d, z) == d.sensors[z][1][1]

\* a handler whose high threshold is exclusive
StrictlyAboveHigh(d, z) == ZoneTemp(d, z) > d.desired[z] + TEMP_ABOVE_THRESHOLD

\* line 196
AtOrAboveHigh(d, z) == ZoneTemp(d, z) >= d.desired[z] + TEMP_ABOVE_THRESHOLD

\* mutant: the low threshold is exclusive
StrictlyBelowLow(d, z) == ZoneTemp(d, z) < d.desired[z] - TEMP_BELOW_THRESHOLD

\* line 221
AtOrBelowLow(d, z) == ZoneTemp(d, z) <= d.desired[z] - TEMP_BELOW_THRESHOLD

\* lines 171-174 and 253-254: the controlled zones that are on
ActiveControlled(l, d) == {z \in l.ctl : d.status[z] = 1}

\* mutant: the last active zone is not protected
NeverLastActiveZone(l) == FALSE

\* line 199: the count taken before the loop says this is the last active zone
IsLastActiveZone(l) == l.count = 1

\* mutant: a controlled zone without a reading ends the loop
RECURSIVE PerZoneStopsAtMissing(_, _, _)
PerZoneStopsAtMissing(l, d, k) ==
    IF k > Len(d.status) THEN [l EXCEPT !.pc = "refresh3", !.i = 0]
    ELSE IF k \notin l.ctl THEN PerZoneStopsAtMissing(l, d, k + 1)
    ELSE IF ~HasReading(d, k) THEN [l EXCEPT !.pc = "refresh3", !.i = 0]
    ELSE IF AtOrAboveHigh(d, k)
         THEN IF d.status[k] = 1 /\ ~IsLastActiveZone(l)
              THEN [l EXCEPT !.pc = "zone_off", !.i = k]
              ELSE PerZoneStopsAtMissing(l, d, k + 1)
    ELSE IF AtOrBelowLow(d, k)
         THEN IF d.status[k] = 0
              THEN [l EXCEPT !.pc = "zone_on", !.i = k]
              ELSE PerZoneStopsAtMissing([l EXCEPT !.anyBelow = TRUE], d, k + 1)
    ELSE PerZoneStopsAtMissing(l, d, k + 1)

\* a handler that marks a cold zone that is off but leaves it off
RECURSIVE PerZoneMarksOnly(_, _, _)
PerZoneMarksOnly(l, d, k) ==
    IF k > Len(d.status) THEN [l EXCEPT !.pc = "refresh3", !.i = 0]
    ELSE IF k \notin l.ctl \/ ~HasReading(d, k) THEN PerZoneMarksOnly(l, d, k + 1)
    ELSE IF AtOrAboveHigh(d, k)
         THEN IF d.status[k] = 1 /\ ~IsLastActiveZone(l)
              THEN [l EXCEPT !.pc = "zone_off", !.i = k]
              ELSE PerZoneMarksOnly(l, d, k + 1)
    ELSE IF AtOrBelowLow(d, k)
         THEN PerZoneMarksOnly([l EXCEPT !.anyBelow = TRUE], d, k + 1)
    ELSE PerZoneMarksOnly(l, d, k + 1)

\* lines 177-241 from the zone at position k up to the next await
RECURSIVE PerZoneFrom(_, _, _)
PerZoneFrom(l, d, k) ==
    IF k > Len(d.status) THEN [l EXCEPT !.pc = "refresh3", !.i = 0]
    ELSE IF k \notin l.ctl \/ ~HasReading(d, k) THEN PerZoneFrom(l, d, k + 1)
    ELSE IF AtOrAboveHigh(d, k)
         THEN IF d.status[k] = 1 /\ ~IsLastActiveZone(l)
              THEN [l EXCEPT !.pc = "zone_off", !.i = k]
              ELSE PerZoneFrom(l, d, k + 1)
    ELSE IF AtOrBelowLow(d, k)
         THEN IF d.status[k] = 0
              THEN [l EXCEPT !.pc = "zone_on", !.i = k]
              ELSE PerZoneFrom([l EXCEPT !.anyBelow = TRUE], d, k + 1)
    ELSE PerZoneFrom(l, d, k + 1)

\* lines 161-174: after the second refresh, the count, then the loop
AfterRefresh2(l, d) ==
    LET l1 == Issue(l, Cmd("refresh", 0, 0, "second"))
    IN  PerZoneFrom([l1 EXCEPT !.anyBelow = FALSE,
                               !.count = Cardinality(ActiveControlled(l, d))], d, 1)

\* line 204 has been awaited
AfterZoneOff(l, d) ==
    LET l1 == Issue(l, Cmd("zone", l.i, 0, "rule1"))
    IN  IF l.notify THEN [l1 EXCEPT !.pc = "notify_off"]
        ELSE PerZoneFrom(l1, d, l.i + 1)

\* lines 207-218 have been awaited
AfterNotifyOff(l, d) ==
    PerZoneFrom(Issue(l, Cmd("notify", l.i, 0, "rule1")), d, l.i + 1)

\* line 224 has been awaited
AfterZoneOn(l, d) ==
    LET l1 == Issue(l, Cmd("zone", l.i, 1, "rule2"))
    IN  IF l.notify THEN [l1 EXCEPT !.pc = "notify_on"]
        ELSE PerZoneFrom([l1 EXCEPT !.anyBelow = TRUE], d, l.i + 1)

\* lines 227-241 have been awaited
AfterNotifyOn(l, d) ==
    PerZoneFrom([Issue(l, Cmd("notify", l.i, 1, "rule2")) EXCEPT !.anyBelow = TRUE],
                d, l.i + 1)

(***************************************************************************)
(* Lines 243-334: the aggregate power rule.                                *)
(***************************************************************************)
\* lines 251-267
AllActiveZonesAboveThreshold(l, d) ==
    \A z \in ActiveControlled(l, d) :
        HasReading(d, z) => ~(ZoneTemp(d, z) < d.desired[z] + TEMP_ABOVE_THRESHOLD)

\* line 276
Rule3Applies(l, d) ==
    /\ AllActiveZonesAboveThreshold(l, d)
    /\ Cardinality(ActiveControlled(l, d)) > 0
    /\ d.power = 1

\* line 301, reached only when line 276 is false
Rule4Applies(l, d) == l.anyBelow /\ ~(d.power = 1)

\* a handler without the activation branch of lines 323-334
Rule5Never(l, d) == FALSE

\* line 325, reached only when lines 276 and 301 are false
Rule5Applies(l, d) == ~(d.power = 1)

\* mutant: the activation loop visits the zones from the last to the first
Rule5FromLastFirst(l, d, k) ==
    LET todo == {z \in 1..Len(d.status) : z \in l.ctl /\ d.status[z] = 0}
    IN  IF todo = {} THEN Return(l, "complete")
        ELSE [l EXCEPT !.pc = "rule5_on", !.i = CHOOSE z \in todo : \A y \in todo : y <= z]

\* mutant: the activation loop switches on every zone that is off
Rule5FromAnyZone(l, d, k) ==
    LET todo == {z \in k..Len(d.status) : d.status[z] = 0}
    IN  IF todo = {} THEN Return(l, "complete")
        ELSE [l EXCEPT !.pc = "rule5_on", !.i = CHOOSE z \in todo : \A y \in todo : z <= y]

\* lines 327-331 from the zone at position k up to the next await
Rule5From(l, d, k) ==
    LET todo == {z \in k..Len(d.status) : z \in l.ctl /\ d.status[z] = 0}
    IN  IF todo = {} THEN Return(l, "complete")
        ELSE [l EXCEPT !.pc = "rule5_on", !.i = CHOOSE z \in todo : \A y \in todo : z <= y]

\* mutant: the turn-on rule is tested first, on the flag alone
AfterRefresh3OnFirst(l, d) ==
    LET l1 == [Issue(l, Cmd("refresh", 0, 0, "third"))
                  EXCEPT !.count = Cardinality(ActiveControlled(l, d))]
    IN  IF l1.anyBelow THEN [l1 EXCEPT !.pc = "ac_on"]
        ELSE IF Rule3Applies(l1, d) THEN [l1 EXCEPT !.pc = "ac_off"]
        ELSE IF Rule5Applies(l1, d) THEN Rule5From(l1, d, 1)
        ELSE Return(l1, "complete")

\* lines 243-334 after the third refresh
AfterRefresh3(l, d) ==
    LET l1 == [Issue(l, Cmd("refresh", 0, 0, "third"))
                  EXCEPT !.count = Cardinality(ActiveControlled(l, d))]
    IN  IF Rule3Applies(l1, d) THEN [l1 EXCEPT !.pc = "ac_off"]
        ELSE IF Rule4Applies(l1, d) THEN [l1 EXCEPT !.pc = "ac_on"]
        ELSE IF Rule5Applies(l1, d) THEN Rule5From(l1, d, 1)
        ELSE Return(l1, "complete")

\* lines 280-284 have been awaited
AfterAcOff(l) ==
    LET l1 == Issue(l, Cmd("power", 0, 0, "rule3"))
    IN  IF l.notify THEN [l1 EXCEPT !.pc = "notify_ac_off"] ELSE Return(l1, "complete")

\* lines 287-298 have been awaited
AfterNotifyAcOff(l) == Return(Issue(l, Cmd("notify", 0, 0, "rule3")), "complete")

\* lines 303-307 have been awaited
AfterAcOn(l) ==
    LET l1 == Issue(l, Cmd("power", 0, 1, "rule4"))
    IN  IF l.notify THEN [l1 EXCEPT !.pc = "notify_ac_on"] ELSE Return(l1, "complete")

\* lines 310-321 have been awaited
AfterNotifyAcOn(l) == Return(Issue(l, Cmd("notify", 0, 1, "rule4")), "complete")

\* line 330 has been awaited for the pending zone, then the rest of the loop
AfterRule5On(l, d) == Rule5From(Issue(l, Cmd("zone", l.i, 1, "rule5")), d, l.i + 1)

(***************************************************************************)
(* What the awaited operations do to the device.                           *)
(***************************************************************************)
\* Vzduch.zone_switch(zone_id, to_state)
ZoneSwitch(d, z, v) == [d EXCEPT !.status[z] = v]

\* Vzduch.power_switch(to_state)
PowerSwitch(d, v) == [d EXCEPT !.power = v]

\* climate.py 241-242, 254-255: the AirTouch entity is among the called entities
CallsAirTouch(target) == IsSubstring(E_airtouch, target)

\* climate.turn_off: handle_climate_turn_off, then AirTouch3Climate.async_turn_off
ClimateTurnOff(d, target) ==
    IF CallsAirTouch(target) /\ d.power = AC_POWER_ON
    THEN PowerSwitch(d, AC_POWER_OFF) ELSE d

\* climate.turn_on: handle_climate_turn_on, then AirTouch3Climate.async_turn_on
ClimateTurnOn(d, target) ==
    IF CallsAirTouch(target) /\ d.power = AC_POWER_OFF
    THEN PowerSwitch(d, AC_POWER_ON) ELSE d

(***************************************************************************)
(* The services and entity methods of climate.py.  A value of the call     *)
(* data carries its Python type, so that type(x) != int can be decided; an  *)
(* entity is described by what hass.states.get and its attributes answer.  *)
(***************************************************************************)
\* climate.py 135: the accepted range of set_zone_temperature
MIN_TEMPERATURE == 16
MAX_TEMPERATURE == 32
\* climate.py 182: the accepted range of set_zone_damper
MIN_PERCENTAGE == 0
MAX_PERCENTAGE == 100
\* climate.py 165: the device's answer for a zone without temperature control
NOT_TEMPERATURE_CONTROLLED == 0

NoneVal == [type |-> "none", val |-> 0]
IntVal(n) == [type |-> "int", val |-> n]
\* a float, a str or a bool: type(x) != int holds for each of them
OtherVal(t) == [type |-> t, val |-> 0]

NonInts == {OtherVal("float"), OtherVal("str"), OtherVal("bool")}
TemperatureValues ==
    {NoneVal} \cup NonInts \cup
    {IntVal(n) : n \in {MIN_TEMPERATURE - 1, MIN_TEMPERATURE, Desired0,
                        Desired0 + 1, MAX_TEMPERATURE, MAX_TEMPERATURE + 1}}
\* climate.py 212: the accepted values of zone_switch, and their neighbours
ToStateValues ==
    {NoneVal} \cup NonInts \cup {IntVal(n) : n \in {0 - 1, 0, 1, 2}}
\* the temperature keyword of AirTouch3Climate.async_set_temperature
AcTemperatureValues == {NoneVal, OtherVal("float"), IntVal(Desired0)}
PercentageValues ==
    {NoneVal} \cup NonInts \cup
    {IntVal(n) : n \in {MIN_PERCENTAGE - 1, MIN_PERCENTAGE, MIN_PERCENTAGE + 1,
                        MAX_PERCENTAGE - 1, MAX_PERCENTAGE, MAX_PERCENTAGE + 1}}

\* the entity_id of the call data: absent, without a state, a state without
\* attributes, a state whose id is None, a zone whose desired_temperature is
\* None, or the sensor entity of zone id
Entity(kind, id) == [kind |-> kind, id |-> id]
EntityArgs(n) ==
    {Entity("absent", 0), Entity("unknown", 0), Entity("no_attributes", 0),
     Entity("id_none", 0)} \cup
    {Entity(k, z) : k \in {"no_set_point", "zone"}, z \in 1..n}

HVACModes == {"off", "heat", "cool", "fan_only", "dry", "heat_cool"}
\* const.py 9-14, and a fan mode the integration does not list
FanModes == {"Quiet", "Low", "Medium", "High", "Powerful", "Auto", "diffuse"}

\* climate.py 84-91: the Device Client's constant for a fan mode; dict.get
\* answers None for a mode that is not a key
HA_FAN_MODE_TO_AT3(fan_mode) ==
    CASE fan_mode = "Quiet" -> "AC_FAN_MODE_QUIET"
      [] fan_mode = "Low" -> "AC_FAN_MODE_LOW"
      [] fan_mode = "Medium" -> "AC_FAN_MODE_MEDIUM"
      [] fan_mode = "High" -> "AC_FAN_MODE_HIGH"
      [] fan_mode = "Powerful" -> "AC_FAN_MODE_POWERFUL"
      [] fan_mode = "Auto" -> "AC_FAN_MODE_AUTO"
      [] OTHER -> "None"
TargetArgs == {<<>>, E_airtouch, E_other}

NoRequest ==
    [temperature |-> NoneVal, percentage |-> NoneVal, to_state |-> NoneVal,
     entity |-> Entity("absent", 0), target |-> <<>>, mode |-> ""]

\* a call the handler forwards to the device
ApiCall(op, z, v, m) == [op |-> op, z |-> z, v |-> v, m |-> m]

\* no call in flight; attrs is the desired_temperature attribute of the
\* state of each zone's sensor entity, which hass.states.get answers
IdleService ==
    [op |-> "none", pc |-> "idle", outcome |-> "none", req |-> NoRequest,
     zone |-> 0, cur |-> NoneVal, sent |-> <<>>,
     attrs |-> [z \in 1..NZones |-> Desired0],
     before |-> [op |-> "other", target |-> <<>>, npower |-> 0]]

NPower(sent) == Cardinality({j \in 1..Len(sent) : sent[j].op = "power"})

\* a handler is entered: the entity states are as they were, and what the
\* previous call, a turn_on or a turn_off, did to the AC power is kept
Enter(s, op, req) ==
    [IdleService EXCEPT !.op = op, !.req = req, !.attrs = s.attrs,
        !.before = [op |-> IF s.op \in {"turn_on", "turn_off"} THEN s.op ELSE "other",
                    target |-> s.req.target, npower |-> NPower(s.sent)]]

Leave(s, outcome) == [s EXCEPT !.pc = "done", !.outcome = outcome]
Forward(s, c) == [s EXCEPT !.sent = Append(@, c)]

\* climate.py 126-157: the early returns of handle_set_zone_temperature;
\* attributes['id'] on a state without that attribute raises KeyError
SetZoneTemperatureChecks(req) ==
    IF req.temperature.type = "none" THEN "no_temperature"
    ELSE IF req.temperature.type # "int" THEN "not_int"
    ELSE IF req.temperature.val < MIN_TEMPERATURE \/ req.temperature.val > MAX_TEMPERATURE
         THEN "out_of_range"
    ELSE IF req.entity.kind = "absent" THEN "no_entity_id"
    ELSE IF req.entity.kind = "unknown" THEN "not_found"
    ELSE IF req.entity.kind = "no_attributes" THEN "raised"
    ELSE IF req.entity.kind = "id_none" THEN "no_id"
    ELSE IF req.entity.kind = "no_set_point" THEN "no_set_point"
    ELSE "ok"

\* climate.py 159: the loop condition
WhileNotSet(s) ==
    IF s.cur = s.req.temperature THEN Leave(s, "set")
    ELSE [s EXCEPT !.pc = "set_zone_temperature"]

\* climate.py 122-159: handle_set_zone_temperature up to its first await;
\* the loop starts from the attribute of the entity's state (line 154)
HandleSetZoneTemperature(s, req) ==
    LET e == Enter(s, "set_zone_temperature", req)
        why == SetZoneTemperatureChecks(req)
    IN  IF why # "ok" THEN Leave(e, why)
        ELSE WhileNotSet([e EXCEPT !.zone = req.entity.id,
                                   !.cur = IntVal(s.attrs[req.entity.id])])

\* climate.py 160-167: set_zone_temperature has returned r.  Every pass of
\* the loop awaits the call again; the record keeps the first MaxTries.
AfterSetZoneTemperature(s, r) ==
    LET c == ApiCall("temperature", s.zone, s.req.temperature.val, "")
        t == [(IF Len(s.sent) < MaxTries THEN Forward(s, c) ELSE s) EXCEPT !.cur = r]
    IN  IF r.type = "none" THEN Leave(t, "failed")
        ELSE IF r.val = NOT_TEMPERATURE_CONTROLLED THEN Leave(t, "not_controlled")
        ELSE WhileNotSet(t)

\* Vzduch.set_zone_temperature(zone_id, temperature) answering r
ZoneTemperatureSet(d, z, r) ==
    IF r.type = "none" \/ r.val = NOT_TEMPERATURE_CONTROLLED THEN d
    ELSE [d EXCEPT !.desired[z] = r.val]

\* what set_zone_temperature may answer
TemperatureReturns ==
    {NoneVal, IntVal(NOT_TEMPERATURE_CONTROLLED)} \cup
    {IntVal(n) : n \in {Desired0, Desired0 + 1}}

\* a handler that forwards any whole number as a damper percentage
SetZoneDamperChecksAnyInt(req) ==
    IF req.percentage.type # "int" THEN "not_int"
    ELSE IF req.entity.kind \in {"absent", "unknown", "no_attributes", "id_none"} THEN "no_id"
    ELSE "ok"

\* climate.py 173-199: the early returns of handle_set_zone_damper;
\* attributes.get('id') answers None for a state without that attribute
SetZoneDamperChecks(req) ==
    IF req.percentage.type = "none" THEN "no_percentage"
    ELSE IF req.percentage.type # "int" THEN "not_int"
    ELSE IF req.percentage.val < MIN_PERCENTAGE \/ req.percentage.val > MAX_PERCENTAGE
         THEN "out_of_range"
    ELSE IF req.entity.kind = "absent" THEN "no_entity_id"
    ELSE IF req.entity.kind = "unknown" THEN "not_found"
    ELSE IF req.entity.kind \in {"no_attributes", "id_none"} THEN "no_id"
    ELSE "ok"

\* climate.py 169-201: handle_set_zone_damper up to its await
HandleSetZoneDamper(s, req) ==
    LET e == Enter(s, "set_zone_damper", req)
        why == SetZoneDamperChecks(req)
    IN  IF why # "ok" THEN Leave(e, why)
        ELSE [e EXCEPT !.pc = "set_zone_damper", !.zone = req.entity.id]

\* climate.py 201: set_zone_damper has been awaited
AfterSetZoneDamper(s) ==
    Leave(Forward(s, ApiCall("damper", s.zone, s.req.percentage.val, "")), "set")

\* an entity whose turn_on switches the power without looking at it
HandleClimateTurnOnAlways(s, d, req) ==
    LET e == Enter(s, "turn_on", req)
    IN  IF req.target = <<>> THEN Leave(e, "no_entity_ids")
        ELSE IF ~CallsAirTouch(req.target) THEN Leave(e, "not_called")
        ELSE [e EXCEPT !.pc = "power_switch_on"]

\* climate.py 207-229: the early returns of handle_zone_switch
ZoneSwitchChecks(req) ==
    IF req.to_state.type = "none" THEN "no_to_state"
    ELSE IF req.to_state.type # "int" \/ req.to_state.val \notin {0, 1} THEN "not_0_or_1"
    ELSE IF req.entity.kind = "absent" THEN "no_entity_id"
    ELSE IF req.entity.kind = "unknown" THEN "not_found"
    ELSE IF req.entity.kind \in {"no_attributes", "id_none"} THEN "no_id"
    ELSE "ok"

\* climate.py 203-231: handle_zone_switch up to its await
HandleZoneSwitch(s, req) ==
    LET e == Enter(s, "zone_switch", req)
        why == ZoneSwitchChecks(req)
    IN  IF why # "ok" THEN Leave(e, why)
        ELSE [e EXCEPT !.pc = "zone_switch", !.zone = req.entity.id]

\* climate.py 231: zone_switch has been awaited
AfterZoneSwitch(s) ==
    Leave(Forward(s, ApiCall("zone", s.zone, s.req.to_state.val, "")), "switched")

\* climate.py 392-394: async_set_fan_mode up to its await
AsyncSetFanMode(s, req) == [Enter(s, "set_fan_mode", req) EXCEPT !.pc = "set_fan_mode"]

\* climate.py 394: set_fan_mode has been awaited
AfterSetFanMode(s) ==
    Leave(Forward(s, ApiCall("fan_mode", 0, 0, HA_FAN_MODE_TO_AT3(s.req.mode))), "set")

\* climate.py 396-402: async_set_temperature up to its await
AsyncSetTemperature(s, req) ==
    LET e == Enter(s, "set_temperature", req)
    IN  IF req.temperature.type = "none" THEN Leave(e, "no_temperature")
        ELSE [e EXCEPT !.pc = "set_temperature"]

\* climate.py 402: set_temperature has been awaited
AfterSetTemperature(s) ==
    Leave(Forward(s, ApiCall("ac_temperature", 0, s.req.temperature.val,
                             s.req.temperature.type)), "set")

\* climate.py 234-245, 380-384: handle_climate_turn_on, async_turn_on to its await
HandleClimateTurnOn(s, d, req) ==
    LET e == Enter(s, "turn_on", req)
    IN  IF req.target = <<>> THEN Leave(e, "no_entity_ids")
        ELSE IF ~CallsAirTouch(req.target) THEN Leave(e, "not_called")
        ELSE IF d.power = AC_POWER_OFF THEN [e EXCEPT !.pc = "power_switch_on"]
        ELSE Leave(e, "already")

\* climate.py 247-258, 386-390: handle_climate_turn_off, async_turn_off to its await
HandleClimateTurnOff(s, d, req) ==
    LET e == Enter(s, "turn_off", req)
    IN  IF req.target = <<>> THEN Leave(e, "no_entity_ids")
        ELSE IF ~CallsAirTouch(req.target) THEN Leave(e, "not_called")
        ELSE IF d.power = AC_POWER_ON THEN [e EXCEPT !.pc = "power_switch_off"]
        ELSE Leave(e, "already")

\* an entity that sets the mode without switching the power on first
AsyncSetHvacModeFirst(s, d, req) ==
    LET e == Enter(s, "set_hvac_mode", req)
    IN  IF req.mode = "off" THEN [e EXCEPT !.pc = "power_switch_off"]
        ELSE [e EXCEPT !.pc = "set_mode"]

\* climate.py 361-373: async_set_hvac_mode up to its first await
AsyncSetHvacMode(s, d, req) ==
    LET e == Enter(s, "set_hvac_mode", req)
    IN  IF req.mode = "off" THEN [e EXCEPT !.pc = "power_switch_off"]
        ELSE IF d.power = AC_POWER_OFF THEN [e EXCEPT !.pc = "power_switch_on"]
        ELSE [e EXCEPT !.pc = "set_mode"]

\* climate.py 369, 390: power_switch(AC_POWER_OFF) has been awaited
AfterPowerSwitchOff(s) ==
    Leave(Forward(s, ApiCall("power", 0, AC_POWER_OFF, "")), "switched")

\* climate.py 374, 384: power_switch(AC_POWER_ON) has been awaited; the
\* entity method async_set_hvac_mode goes on to set the mode
AfterPowerSwitchOn(s) ==
    LET t == Forward(s, ApiCall("power", 0, AC_POWER_ON, ""))
    IN  IF s.op = "set_hvac_mode" THEN [t EXCEPT !.pc = "set_mode"]
        ELSE Leave(t, "switched")

\* climate.py 378: set_mode has been awaited
AfterSetMode(s) == Leave(Forward(s, ApiCall("mode", 0, 0, s.req.mode)), "set")

(***************************************************************************)
(* One step of a cycle: the pending await completes and the handler runs   *)
(* to its next await.  The result is the new locals and the new device.    *)
(***************************************************************************)
Res(l, d) == [l |-> l, d |-> d]

StepCycle(l, d, zs, tg) ==
    CASE l.pc \in {"refresh1", "refresh1_default"} ->
            Res(AfterRefresh1(l, d, zs, tg), d)
      [] l.pc = "force_off" ->
            LET d1 == ZoneSwitch(d, l.i, 0) IN Res(AfterForcedOff(l, d1), d1)
      [] l.pc \in {"refresh2", "refresh2_default"} -> Res(AfterRefresh2(l, d), d)
      [] l.pc = "zone_off" ->
            LET d1 == ZoneSwitch(d, l.i, 0) IN Res(AfterZoneOff(l, d1), d1)
      [] l.pc = "notify_off" -> Res(AfterNotifyOff(l, d), d)
      [] l.pc = "zone_on" ->
            LET d1 == ZoneSwitch(d, l.i, 1) IN Res(AfterZoneOn(l, d1), d1)
      [] l.pc = "notify_on" -> Res(AfterNotifyOn(l, d), d)
      [] l.pc \in {"refresh3", "refresh3_default"} -> Res(AfterRefresh3(l, d), d)
      [] l.pc = "ac_off" -> Res(AfterAcOff(l), ClimateTurnOff(d, l.target))
      [] l.pc = "notify_ac_off" -> Res(AfterNotifyAcOff(l), d)
      [] l.pc = "ac_on" -> Res(AfterAcOn(l), ClimateTurnOn(d, l.target))
      [] l.pc = "notify_ac_on" -> Res(AfterNotifyAcOn(l), d)
      [] l.pc = "rule5_on" ->
            LET d1 == ZoneSwitch(d, l.i, 1) IN Res(AfterRule5On(l, d1), d1)
      [] OTHER -> Res(l, d)

(***************************************************************************)
(* The state machine.                                                      *)
(***************************************************************************)
Procs == {1, 2}

\* the input_boolean.at3_zone_<key> entities that exist: one per listed zone
ToggleKeys(zs) == {CleanName(zs[z]) : z \in 1..Len(zs)} \cap MappingKeys

\* what a call and the host can hold when the handler starts
Envs ==
    [active : {"absent", "on", "off"},
     climateArg : {<<>>, E_airtouch, E_other, E_ghost},
     registry : {<<>>, <<E_airtouch>>},
     stateful : {{E_airtouch, E_other}, {E_other}},
     data : {"absent", "api"},
     notifyArg : {"mobile_app_tom_s_phone", ""}]

Init ==
    /\ zones = PlainLayout
    /\ power \in {AC_POWER_OFF, AC_POWER_ON}
    /\ status \in [1..NZones -> {0, 1}]
    /\ sensors \in [1..NZones -> SensorLists]
    /\ desired = [z \in 1..NZones |-> Desired0]
    /\ toggles \in [ToggleKeys(PlainLayout) -> {"on", "off"}]
    /\ cyc = [p \in Procs |-> IdleCycle]
    /\ drifts = 0
    /\ svc = IdleService

\* the step of cycle p takes effect on the device and on its locals
Apply(p, r) ==
    /\ cyc' = [cyc EXCEPT ![p] = r.l]
    /\ power' = r.d.power
    /\ status' = r.d.status
    /\ UNCHANGED <<zones, sensors, desired, toggles, drifts, svc>>

At(p, where) == cyc[p].pc = where

\* run_smart_control is called
Start(p) ==
    /\ At(p, "idle")
    /\ \E env \in Envs : cyc' = [cyc EXCEPT ![p] = BeginCycle(cyc[p], Dev, env)]
    /\ UNCHANGED <<zones, power, status, sensors, desired, toggles, drifts, svc>>

Refresh1(p) == At(p, "refresh1") /\ Apply(p, StepCycle(cyc[p], Dev, zones, toggles))
ForceOff(p) == At(p, "force_off") /\ Apply(p, StepCycle(cyc[p], Dev, zones, toggles))
Refresh2(p) == At(p, "refresh2") /\ Apply(p, StepCycle(cyc[p], Dev, zones, toggles))
ZoneOff(p) == At(p, "zone_off") /\ Apply(p, StepCycle(cyc[p], Dev, zones, toggles))
ZoneOn(p) == At(p, "zone_on") /\ Apply(p, StepCycle(cyc[p], Dev, zones, toggles))
Refresh3(p) == At(p, "refresh3") /\ Apply(p, StepCycle(cyc[p], Dev, zones, toggles))
AcOff(p) == At(p, "ac_off") /\ Apply(p, StepCycle(cyc[p], Dev, zones, toggles))
AcOn(p) == At(p, "ac_on") /\ Apply(p, StepCycle(cyc[p], Dev, zones, toggles))
Rule5On(p) == At(p, "rule5_on") /\ Apply(p, StepCycle(cyc[p], Dev, zones, toggles))

NotifyPcs == {"notify_off", "notify_on", "notify_ac_off", "notify_ac_on"}
CommandPcs == {"force_off", "zone_off", "zone_on", "rule5_on", "ac_off", "ac_on"}
RefreshPcs == {"refresh1", "refresh2", "refresh3"}
DefaultRefreshPcs == {"refresh1_default", "refresh2_default", "refresh3_default"}

\* the await of the except branch that belongs to a refresh point
DefaultOf(pc) ==
    CASE pc = "refresh1" -> "refresh1_default"
      [] pc = "refresh2" -> "refresh2_default"
      [] pc = "refresh3" -> "refresh3_default"

\* the notify service call returns
Notify(p) ==
    /\ cyc[p].pc \in NotifyPcs
    /\ Apply(p, StepCycle(cyc[p], Dev, zones, toggles))

\* an exception leaves the handler
Raise(l) == [l EXCEPT !.pc = "raised", !.outcome = "raised", !.failed = l.pc]

\* mutant: the exception of the notify call is not caught
NotifyRaisesUncaught(p) ==
    /\ cyc[p].pc \in NotifyPcs
    /\ Apply(p, Res(Raise(cyc[p]), Dev))

\* the notify service call raises: lines 217, 237, 297, 320 catch it
NotifyRaises(p) ==
    /\ cyc[p].pc \in NotifyPcs
    /\ LET r == StepCycle(cyc[p], Dev, zones, toggles)
       IN  Apply(p, Res([r.l EXCEPT !.nfail = TRUE], r.d))

\* an awaited device operation raises, a refresh anything but TypeError:
\* nothing in the handler catches it
CommandRaises(p) ==
    /\ cyc[p].pc \in CommandPcs \cup RefreshPcs \cup DefaultRefreshPcs
    /\ Apply(p, Res(Raise(cyc[p]), Dev))

\* mutant: the TypeError is not caught
RefreshRejectedUncaught(l) == Raise(l)

\* lines 105-107, 164-165, 246-247: except TypeError, then async_update()
RefreshRejected(l) == [l EXCEPT !.pc = DefaultOf(l.pc)]

\* async_update(no_throttle=True) raises TypeError
RefreshRejects(p) ==
    /\ cyc[p].pc \in RefreshPcs
    /\ Apply(p, Res(RefreshRejected(cyc[p]), Dev))

\* async_update() without the parameter returns
RefreshDefault(p) ==
    /\ cyc[p].pc \in DefaultRefreshPcs
    /\ Apply(p, StepCycle(cyc[p], Dev, zones, toggles))

\* hass.services.async_call is not blocking: with a dispatcher that starts
\* the service handler as a task of its own the call of lines 280-284 or
\* 302-306 returns at once, the handler is not suspended there and the
\* power is switched later, by that task
StepDetached(l, d, zs, tg) ==
    LET r == StepCycle(l, d, zs, tg)
    IN  IF r.l.pc = "ac_off" THEN Res([AfterAcOff(r.l) EXCEPT !.bg = "turn_off"], r.d)
        ELSE IF r.l.pc = "ac_on" THEN Res([AfterAcOn(r.l) EXCEPT !.bg = "turn_on"], r.d)
        ELSE r

\* the third refresh returns and the climate service is called detached
AcCallDetached(p) ==
    /\ cyc[p].pc \in {"refresh3", "refresh3_default"}
    /\ StepCycle(cyc[p], Dev, zones, toggles).l.pc \in {"ac_off", "ac_on"}
    /\ Apply(p, StepDetached(cyc[p], Dev, zones, toggles))

\* the climate service call is made and its task has not started
Pending(l) == l.bg \in {"turn_off", "turn_on"}

\* the task of the climate service call is suspended at await power_switch
Switching(l) == l.bg \in {"power_switch_off", "power_switch_on"}

\* climate.py 234-258, 380-390: the handler of the service call runs to its
\* await: it awaits power_switch when the target holds the AirTouch entity
\* and the power is not yet what is asked for, and ends otherwise
TaskStarted(l, d) ==
    IF ~CallsAirTouch(l.target) THEN "none"
    ELSE IF l.bg = "turn_off" /\ d.power = AC_POWER_ON THEN "power_switch_off"
    ELSE IF l.bg = "turn_on" /\ d.power = AC_POWER_OFF THEN "power_switch_on"
    ELSE "none"

\* the event loop starts the task of the climate service call
BackgroundTask(p) ==
    /\ Pending(cyc[p])
    /\ Apply(p, Res([cyc[p] EXCEPT !.bg = TaskStarted(cyc[p], Dev)], Dev))

\* climate.py 384, 390: power_switch returns and the task ends
BackgroundReturns(p) ==
    /\ Switching(cyc[p])
    /\ LET to == IF cyc[p].bg = "power_switch_off" THEN AC_POWER_OFF ELSE AC_POWER_ON
       IN  Apply(p, Res([cyc[p] EXCEPT !.bg = "none"], PowerSwitch(Dev, to)))

\* power_switch raises in the task: the dispatcher logs the exception and
\* the cycle does not see it
BackgroundRaises(p) ==
    /\ Switching(cyc[p])
    /\ Apply(p, Res([cyc[p] EXCEPT !.bg = "failed"], Dev))

Step(p) ==
    \/ Start(p)
    \/ Refresh1(p)
    \/ ForceOff(p)
    \/ Refresh2(p)
    \/ ZoneOff(p)
    \/ ZoneOn(p)
    \/ Refresh3(p)
    \/ AcOff(p)
    \/ AcOn(p)
    \/ Rule5On(p)
    \/ Notify(p)
    \/ NotifyRaises(p)
    \/ CommandRaises(p)
    \/ RefreshRejects(p)
    \/ RefreshDefault(p)
    \/ AcCallDetached(p)
    \/ BackgroundTask(p)
    \/ BackgroundReturns(p)
    \/ BackgroundRaises(p)

\* the steps in which every awaited operation returns
Run(p) ==
    \/ Refresh1(p)
    \/ ForceOff(p)
    \/ Refresh2(p)
    \/ ZoneOff(p)
    \/ ZoneOn(p)
    \/ Refresh3(p)
    \/ AcOff(p)
    \/ AcOn(p)
    \/ Rule5On(p)
    \/ Notify(p)
    \/ AcCallDetached(p)
    \/ BackgroundTask(p)
    \/ BackgroundReturns(p)

\* one invocation at a time
Next == Step(1)

Spec == Init /\ [][Next]_vars

(***************************************************************************)
(* The cycle run again on unchanged data: the same call, the same host     *)
(* state, the device as the previous cycle left it.                        *)
(***************************************************************************)
InFlight(p) == cyc[p].pc \notin {"idle", "done", "raised"}

\* the call and host state of a cycle that passed its preconditions
SameEnv(l) ==
    [active |-> "on", climateArg |-> l.target, registry |-> <<E_airtouch>>,
     stateful |-> {E_airtouch, E_other}, data |-> "api",
     notifyArg |-> IF l.notify THEN "mobile_app_tom_s_phone" ELSE ""]

StartAgain(p) ==
    /\ At(p, "done")
    /\ cyc[p].outcome = "complete"
    /\ cyc[p].run < MaxRuns
    /\ ~Pending(cyc[p]) /\ ~Switching(cyc[p])
    /\ cyc' = [cyc EXCEPT ![p] = BeginCycle(cyc[p], Dev, SameEnv(cyc[p]))]
    /\ UNCHANGED <<zones, power, status, sensors, desired, toggles, drifts, svc>>

NextTwice == Next \/ StartAgain(1)

SpecTwice == Init /\ [][NextTwice]_vars

(***************************************************************************)
(* The device's sensors report while a cycle is in flight. The handler     *)
(* reads the client's copy of the readings, which changes only when a      *)
(* refresh parses the device's answer: a new reading arrives with the      *)
(* pending refresh and differs from the one the earlier rules saw.         *)
(***************************************************************************)
SensorDrift ==
    /\ cyc[1].pc \in RefreshPcs
    /\ drifts < MaxDrift
    /\ \E z \in ZoneIds, s \in SensorLists :
          /\ s # sensors[z]
          /\ sensors' = [sensors EXCEPT ![z] = s]
    /\ drifts' = drifts + 1
    /\ UNCHANGED <<zones, power, status, desired, toggles, cyc, svc>>

NextDrift == Start(1) \/ Run(1) \/ SensorDrift

SpecDrift == Init /\ [][NextDrift]_vars

(***************************************************************************)
(* An installation with the zones "Attic" and "Attic 1", the zones of the  *)
(* ZONE_MAPPING keys attic and attic_1, listed in either order.            *)
(***************************************************************************)
AtticLayouts ==
    {SubSeq(<<N_Attic, N_Attic1, N_Living, N_Bed2>>, 1, NZones),
     SubSeq(<<N_Attic1, N_Attic, N_Living, N_Bed2>>, 1, NZones)}

InitAttic ==
    /\ zones \in AtticLayouts
    /\ power \in {AC_POWER_OFF, AC_POWER_ON}
    /\ status \in [1..NZones -> {0, 1}]
    /\ sensors \in [1..NZones -> SensorLists]
    /\ desired = [z \in 1..NZones |-> Desired0]
    /\ toggles \in [ToggleKeys(zones) -> {"on", "off"}]
    /\ cyc = [p \in Procs |-> IdleCycle]
    /\ drifts = 0
    /\ svc = IdleService

SpecAttic == InitAttic /\ [][Next]_vars

(***************************************************************************)
(* A cycle whose refreshes may raise TypeError, as with a Device Client    *)
(* whose async_update takes no no_throttle parameter, and whose other      *)
(* awaited operations return.                                              *)
(***************************************************************************)
NextFallback == Start(1) \/ Run(1) \/ RefreshRejects(1) \/ RefreshDefault(1)

SpecFallback == Init /\ [][NextFallback]_vars

(***************************************************************************)
(* Two invocations overlap: the service is called again while a cycle is   *)
(* suspended at an await.  Nothing in the handler excludes it.             *)
(***************************************************************************)
\* the call with no arguments on a host where every precondition holds
DefaultEnv ==
    [active |-> "on", climateArg |-> <<>>, registry |-> <<E_airtouch>>,
     stateful |-> {E_airtouch, E_other}, data |-> "api",
     notifyArg |-> "mobile_app_tom_s_phone"]

StartFirst ==
    /\ At(1, "idle")
    /\ cyc' = [cyc EXCEPT ![1] = BeginCycle(cyc[1], Dev, DefaultEnv)]
    /\ UNCHANGED <<zones, power, status, sensors, desired, toggles, drifts, svc>>

StartOverlapping ==
    /\ InFlight(1)
    /\ At(2, "idle")
    /\ cyc' = [cyc EXCEPT ![2] = BeginCycle(cyc[2], Dev, DefaultEnv)]
    /\ UNCHANGED <<zones, power, status, sensors, desired, toggles, drifts, svc>>

NextOverlap == StartFirst \/ StartOverlapping \/ Run(1) \/ Run(2)

SpecOverlap == Init /\ [][NextOverlap]_vars

(***************************************************************************)
(* The services and entity methods of climate.py, called one after the     *)
(* other: first the two that set a zone's set-point or damper, then those  *)
(* that switch a zone or the AC and set the AC's mode, fan and set-point.  *)
(***************************************************************************)
InitServices ==
    /\ Init
    /\ status = [z \in 1..NZones |-> 1]
    /\ sensors = [z \in 1..NZones |-> <<>>]
    /\ toggles = [k \in ToggleKeys(PlainLayout) |-> "on"]

\* no call is in flight
Callable == svc.pc \in {"idle", "done"}

\* airtouch3.set_zone_temperature is called
CallSetZoneTemperature ==
    /\ Callable
    /\ \E t \in TemperatureValues, e \in EntityArgs(NZones) :
          svc' = HandleSetZoneTemperature(svc,
                     [NoRequest EXCEPT !.temperature = t, !.entity = e])
    /\ UNCHANGED <<zones, power, status, sensors, desired, toggles, cyc, drifts>>

\* the device answers set_zone_temperature
SetZoneTemperatureReturns ==
    /\ svc.pc = "set_zone_temperature"
    /\ \E r \in TemperatureReturns :
          /\ svc' = AfterSetZoneTemperature(svc, r)
          /\ desired' = ZoneTemperatureSet(Dev, svc.zone, r).desired
    /\ UNCHANGED <<zones, power, status, sensors, toggles, cyc, drifts>>

\* the sensor entities write their state from the Device Client
SensorStateUpdates ==
    /\ svc.attrs # desired
    /\ svc' = [svc EXCEPT !.attrs = desired]
    /\ UNCHANGED <<zones, power, status, sensors, desired, toggles, cyc, drifts>>

\* airtouch3.set_zone_damper is called
CallSetZoneDamper ==
    /\ Callable
    /\ \E v \in PercentageValues, e \in EntityArgs(NZones) :
          svc' = HandleSetZoneDamper(svc, [NoRequest EXCEPT !.percentage = v, !.entity = e])
    /\ UNCHANGED <<zones, power, status, sensors, desired, toggles, cyc, drifts>>

SetZoneDamperReturns ==
    /\ svc.pc = "set_zone_damper"
    /\ svc' = AfterSetZoneDamper(svc)
    /\ UNCHANGED <<zones, power, status, sensors, desired, toggles, cyc, drifts>>

NextZoneServices ==
    \/ CallSetZoneTemperature
    \/ SetZoneTemperatureReturns
    \/ SensorStateUpdates
    \/ CallSetZoneDamper
    \/ SetZoneDamperReturns

SpecZoneServices == InitServices /\ [][NextZoneServices]_vars

\* airtouch3.zone_switch is called
CallZoneSwitch ==
    /\ Callable
    /\ \E v \in ToStateValues, e \in EntityArgs(NZones) :
          svc' = HandleZoneSwitch(svc, [NoRequest EXCEPT !.to_state = v, !.entity = e])
    /\ UNCHANGED <<zones, power, status, sensors, desired, toggles, cyc, drifts>>

ZoneSwitchReturns ==
    /\ svc.pc = "zone_switch"
    /\ svc' = AfterZoneSwitch(svc)
    /\ status' = ZoneSwitch(Dev, svc.zone, svc.req.to_state.val).status
    /\ UNCHANGED <<zones, power, sensors, desired, toggles, cyc, drifts>>

\* climate.turn_on is called
CallClimateTurnOn ==
    /\ Callable
    /\ \E target \in TargetArgs :
          svc' = HandleClimateTurnOn(svc, Dev, [NoRequest EXCEPT !.target = target])
    /\ UNCHANGED <<zones, power, status, sensors, desired, toggles, cyc, drifts>>

\* climate.turn_off is called
CallClimateTurnOff ==
    /\ Callable
    /\ \E target \in TargetArgs :
          svc' = HandleClimateTurnOff(svc, Dev, [NoRequest EXCEPT !.target = target])
    /\ UNCHANGED <<zones, power, status, sensors, desired, toggles, cyc, drifts>>

\* AirTouch3Climate.async_set_hvac_mode is called
CallSetHvacMode ==
    /\ Callable
    /\ \E mode \in HVACModes :
          svc' = AsyncSetHvacMode(svc, Dev, [NoRequest EXCEPT !.mode = mode])
    /\ UNCHANGED <<zones, power, status, sensors, desired, toggles, cyc, drifts>>

PowerSwitchOnReturns ==
    /\ svc.pc = "power_switch_on"
    /\ svc' = AfterPowerSwitchOn(svc)
    /\ power' = PowerSwitch(Dev, AC_POWER_ON).power
    /\ UNCHANGED <<zones, status, sensors, desired, toggles, cyc, drifts>>

PowerSwitchOffReturns ==
    /\ svc.pc = "power_switch_off"
    /\ svc' = AfterPowerSwitchOff(svc)
    /\ power' = PowerSwitch(Dev, AC_POWER_OFF).power
    /\ UNCHANGED <<zones, status, sensors, desired, toggles, cyc, drifts>>

SetModeReturns ==
    /\ svc.pc = "set_mode"
    /\ svc' = AfterSetMode(svc)
    /\ UNCHANGED <<zones, power, status, sensors, desired, toggles, cyc, drifts>>

\* AirTouch3Climate.async_set_fan_mode is called
CallSetFanMode ==
    /\ Callable
    /\ \E mode \in FanModes : svc' = AsyncSetFanMode(svc, [NoRequest EXCEPT !.mode = mode])
    /\ UNCHANGED <<zones, power, status, sensors, desired, toggles, cyc, drifts>>

SetFanModeReturns ==
    /\ svc.pc = "set_fan_mode"
    /\ svc' = AfterSetFanMode(svc)
    /\ UNCHANGED <<zones, power, status, sensors, desired, toggles, cyc, drifts>>

\* AirTouch3Climate.async_set_temperature is called
CallSetTemperature ==
    /\ Callable
    /\ \E t \in AcTemperatureValues :
          svc' = AsyncSetTemperature(svc, [NoRequest EXCEPT !.temperature = t])
    /\ UNCHANGED <<zones, power, status, sensors, desired, toggles, cyc, drifts>>

SetTemperatureReturns ==
    /\ svc.pc = "set_temperature"
    /\ svc' = AfterSetTemperature(svc)
    /\ UNCHANGED <<zones, power, status, sensors, desired, toggles, cyc, drifts>>

NextClimate ==
    \/ CallClimateTurnOn
    \/ CallClimateTurnOff
    \/ CallSetHvacMode
    \/ PowerSwitchOnReturns
    \/ PowerSwitchOffReturns
    \/ SetModeReturns
    \/ CallSetFanMode
    \/ SetFanModeReturns
    \/ CallSetTemperature
    \/ SetTemperatureReturns
    \/ CallZoneSwitch
    \/ ZoneSwitchReturns

SpecClimate == InitServices /\ [][NextClimate]_vars

(***************************************************************************)
(* The set_zone_temperature service alone, with a device that answers      *)
(* every call it is sent.                                                  *)
(***************************************************************************)
NextTemperature ==
    CallSetZoneTemperature \/ SetZoneTemperatureReturns \/ SensorStateUpdates

SpecTemperature ==
    InitServices /\ [][NextTemperature]_vars /\ WF_vars(SetZoneTemperatureReturns)

(***************************************************************************)
(* Properties.                                                             *)
(***************************************************************************)
\* the cycle ran through the aggregate rule and returned
Completed(p) == cyc[p].pc = "done" /\ cyc[p].outcome = "complete"

\* the controlled zones that were on when the cycle started
StartActive(l) == {z \in l.ctl : l.snap[2][z] = 1}

\* the power the cycle found
StartPower(l) == l.snap[1]

Issued(l, op, z, v) ==
    \E k \in 1..Len(l.cmds) : l.cmds[k].op = op /\ l.cmds[k].z = z /\ l.cmds[k].v = v

\* the reading t of the zone's first sensor exists and t >= d + H
HighZone(z) ==
    /\ sensors[z] # <<>>
    /\ sensors[z][1] # <<>>
    /\ sensors[z][1][1] >= desired[z] + TEMP_ABOVE_THRESHOLD

\* the reading t of the zone's first sensor exists and t <= d - L
LowZone(z) ==
    /\ sensors[z] # <<>>
    /\ sensors[z][1] # <<>>
    /\ sensors[z][1][1] <= desired[z] - TEMP_BELOW_THRESHOLD

\* C1: if at least one controlled zone is on when the per-zone rules start
\* (the count of lines 171-174 is at least 1), at least one controlled zone
\* is on when the per-zone loop has finished (the third refresh is pending).
C1_LastZoneKept ==
    \A p \in Procs :
        (cyc[p].pc = "refresh3" /\ cyc[p].count >= 1)
            => ActiveControlled(cyc[p], Dev) # {}

\* the zone that is the only controlled zone on, and at or above d + H
SoleHighZone(l, z) == StartActive(l) = {z} /\ HighZone(z)

\* C2 as stated: with exactly one controlled zone on and at or above d + H
\* and the AC on, after a complete cycle the zone is on and the aggregate
\* rule has called turn_off.
C2_SoleZoneKeptAcOff ==
    \A p \in Procs : \A z \in ZoneIds :
        (Completed(p) /\ SoleHighZone(cyc[p], z) /\ StartPower(cyc[p]) = AC_POWER_ON)
            => (status[z] = 1 /\ Issued(cyc[p], "power", 0, 0))

\* a controlled zone that is off with a reading at or below d - L
OffLowZones(l) == {z \in l.ctl : l.snap[2][z] = 0 /\ LowZone(z)}

\* C2 amended: with exactly one controlled zone on and at or above d + H,
\* after a complete cycle the zone is on and was never switched off; and when
\* the AC was on and no controlled zone is off at or below d - L, the
\* aggregate rule has called turn_off, which leaves the AirTouch unit off
\* when the cycle's climate entity is the AirTouch entity, once the task of
\* that service call has run: the call is not blocking.  When the AC was on
\* and a controlled zone is off at or below d - L, every such zone is
\* switched on, turn_off is not called and the AC is left on.
C2_SoleZoneKept ==
    \A p \in Procs : \A z \in ZoneIds :
        (Completed(p) /\ SoleHighZone(cyc[p], z))
            => /\ status[z] = 1
               /\ ~Issued(cyc[p], "zone", z, 0)
               /\ (StartPower(cyc[p]) = AC_POWER_ON /\ OffLowZones(cyc[p]) = {})
                     => /\ Issued(cyc[p], "power", 0, 0)
                        /\ (CallsAirTouch(cyc[p].target) /\ cyc[p].bg = "none")
                              => power = AC_POWER_OFF
               /\ (StartPower(cyc[p]) = AC_POWER_ON /\ OffLowZones(cyc[p]) # {})
                     => /\ \A y \in OffLowZones(cyc[p]) :
                              Issued(cyc[p], "zone", y, 1) /\ status[y] = 1
                        /\ ~Issued(cyc[p], "power", 0, 0)
                        /\ power = AC_POWER_ON

C2_Witness ==
    \E z \in ZoneIds :
        /\ Completed(1) /\ SoleHighZone(cyc[1], z)
        /\ StartPower(cyc[1]) = AC_POWER_ON
        /\ Cardinality(cyc[1].ctl) > 1
        /\ Issued(cyc[1], "power", 0, 0)
        /\ power = AC_POWER_OFF /\ status[z] = 1

\* C3: a controlled zone that is on with a reading at or above d + H and is
\* not the only controlled zone on is off after a complete cycle.
C3_HighZoneSwitchedOff ==
    \A p \in Procs : \A z \in ZoneIds :
        (Completed(p) /\ z \in StartActive(cyc[p]) /\ HighZone(z)
                      /\ StartActive(cyc[p]) # {z})
            => status[z] = 0

\* C4: a controlled zone that is off with a reading at or below d - L is on
\* after a complete cycle.
C4_LowZoneSwitchedOn ==
    \A p \in Procs : \A z \in ZoneIds :
        (Completed(p) /\ z \in cyc[p].ctl /\ cyc[p].snap[2][z] = 0 /\ LowZone(z))
            => status[z] = 1

C4_Witness ==
    \E z \in ZoneIds :
        /\ Completed(1) /\ z \in cyc[1].ctl /\ cyc[1].snap[2][z] = 0 /\ LowZone(z)
        /\ ZoneTemp(Dev, z) = desired[z] - TEMP_BELOW_THRESHOLD
        /\ Issued(cyc[1], "zone", z, 1)
        /\ ~Issued(cyc[1], "power", 0, 1)
        /\ status[z] = 1

(***************************************************************************)
(* The cycle as it runs when every awaited operation returns: the          *)
(* reference for what a cycle issues.                                      *)
(***************************************************************************)
RECURSIVE RunToEnd(_, _, _, _)
RunToEnd(l, d, zs, tg) ==
    IF l.pc \in {"idle", "done", "raised"} THEN l
    ELSE LET r == StepCycle(l, d, zs, tg) IN RunToEnd(r.l, r.d, zs, tg)

\* the cycle of p started again from what it found, with no failure
FaultFree(p) ==
    LET l == cyc[p]
        l0 == [IdleCycle EXCEPT !.pc = "refresh1", !.run = l.run,
                                !.notify = l.notify, !.target = l.target,
                                !.snap = l.snap]
        d0 == [Dev EXCEPT !.power = l.snap[1], !.status = l.snap[2]]
    IN  RunToEnd(l0, d0, zones, toggles)

ZoneOrPowerCmds(l) == SelectSeq(l.cmds, LAMBDA c : c.op \in {"zone", "power"})

\* C5: a cycle run right after a complete cycle, on unchanged readings,
\* toggles and set-points and with the same call, issues no zone command and
\* no power command.
C5_SecondRunIssuesNothing ==
    \A p \in Procs :
        (cyc[p].run >= 2 /\ cyc[p].pc \notin {"idle", "raised"})
            => ZoneOrPowerCmds(cyc[p]) = <<>>

\* C6: a cycle issues at most one power command; and when the third refresh
\* shows the AC on, a controlled zone on and every active controlled zone at
\* or above d + H, the cycle goes on to call turn_off (it is suspended in
\* the call or, the call being detached, has made it) and issues no
\* turn_on, also when a controlled zone was marked below its low threshold.
PowerCmds(l) == SelectSeq(l.cmds, LAMBDA c : c.op = "power")

C6_AtMostOnePowerCmd == \A p \in Procs : Len(PowerCmds(cyc[p])) <= 1

C6_OffTakesPriority ==
    /\ [](C6_AtMostOnePowerCmd)
    /\ [][\A p \in Procs :
            (/\ cyc[p].pc = "refresh3"
             /\ cyc'[p].pc # "refresh3"
             /\ Rule3Applies(cyc[p], Dev))
                => /\ cyc'[p].pc = "ac_off" \/ Issued(cyc'[p], "power", 0, 0)
                   /\ cyc'[p].pc \in {"ac_off", "notify_ac_off", "done"}
                   /\ ~Issued(cyc'[p], "power", 0, 1)]_vars
    /\ [][\A p \in Procs :
            (cyc[p].pc \in {"ac_off", "notify_ac_off"} /\ cyc'[p].pc # cyc[p].pc)
                => (cyc'[p].pc \in {"notify_ac_off", "done"}
                    /\ ~Issued(cyc'[p], "power", 0, 1))]_vars

\* both conditions at once: turn_off is pending and a zone was marked below
C6_Witness ==
    /\ cyc[1].pc = "ac_off"
    /\ cyc[1].anyBelow
    /\ power = AC_POWER_ON

IsPrefix(a, b) == Len(a) <= Len(b) /\ SubSeq(b, 1, Len(a)) = a

\* C7: a notification that raises never ends the cycle, and a cycle in which
\* a notification raised issues what the cycle issues when every
\* notification returns: the same refreshes, zone commands, power commands
\* and notification attempts in the same order, up to the same return.
C7_NotifyFailureHarmless ==
    \A p \in Procs :
        /\ cyc[p].failed \notin NotifyPcs
        /\ cyc[p].nfail =>
              LET ref == FaultFree(p)
              IN  /\ IsPrefix(cyc[p].cmds, ref.cmds)
                  /\ cyc[p].pc = "done" =>
                        /\ cyc[p].cmds = ref.cmds
                        /\ cyc[p].outcome = "complete"
                        /\ ref.outcome = "complete"

\* a notification raised and the cycle went on to two more commands
C7_Witness ==
    /\ Completed(1)
    /\ cyc[1].nfail
    /\ Len(ZoneOrPowerCmds(cyc[1])) >= 2
    /\ cyc[1].cmds[Len(cyc[1].cmds)].op = "notify"
    /\ cyc[1].cmds = FaultFree(1).cmds

\* C8: two overlapping cycles never command the same zone, or the AC, one
\* on and the other off, and never end with the AC on and no controlled zone
\* on when a controlled zone was on before.
C8_NoConflictingCommands ==
    /\ \A z \in ZoneIds : \A p, q \in Procs :
          ~(Issued(cyc[p], "zone", z, 1) /\ Issued(cyc[q], "zone", z, 0) /\ p # q)
    /\ \A p, q \in Procs :
          ~(Issued(cyc[p], "power", 0, 1) /\ Issued(cyc[q], "power", 0, 0) /\ p # q)
    /\ (Completed(1) /\ Completed(2) /\ StartActive(cyc[1]) # {} /\ power = AC_POWER_ON)
          => ActiveControlled(cyc[1], Dev) # {}

\* C9: a zone command that raises does not end the cycle: the zones after it
\* and the aggregate rule are still evaluated.
ZoneCommandPcs == {"force_off", "zone_off", "zone_on", "rule5_on"}

C9_FailedZoneCommandDoesNotBlock ==
    \A p \in Procs :
        cyc[p].failed \in ZoneCommandPcs => cyc[p].pc # "raised"

\* C10: with the automation toggle absent or not on, with no climate entity
\* resolvable (none supplied and none discovered, or the supplied one has no
\* state), or with no AirTouch device registered, the handler returns at
\* once without raising: it has awaited no refresh, no command and no
\* notification, and the device is as it was.
EarlyOutcomes == {"inactive", "no_climate", "no_state", "no_domain", "no_api"}

AbortCase(env) ==
    \/ env.active # "on"
    \/ env.climateArg = <<>> /\ env.registry = <<>>
    \/ env.climateArg # <<>> /\ env.climateArg \notin env.stateful
    \/ env.data = "absent"

\* a device with every zone off, as a call made in an abort case finds it
QuietDev ==
    [power |-> AC_POWER_OFF,
     status |-> [z \in 1..NZones |-> 0],
     sensors |-> [z \in 1..NZones |-> <<>>],
     desired |-> [z \in 1..NZones |-> Desired0]]

\* every call made in an abort case ends before its first await
AbortCasesEndAtOnce ==
    \A env \in Envs :
        LET l == BeginCycle(IdleCycle, QuietDev, env)
        IN  AbortCase(env) => (l.pc = "done" /\ l.outcome \in EarlyOutcomes)

C10_EarlyEndIssuesNothing ==
    /\ \A p \in Procs :
          cyc[p].outcome \in EarlyOutcomes
              => /\ cyc[p].pc = "done"
                 /\ cyc[p].cmds = <<>>
                 /\ cyc[p].failed = ""
                 /\ power = cyc[p].snap[1]
                 /\ status = cyc[p].snap[2]
    /\ AbortCasesEndAtOnce

\* the automation is off while a zone outside the toggles is on: it stays on
C10_Witness ==
    /\ cyc[1].pc = "done"
    /\ cyc[1].outcome = "inactive"
    /\ \E z \in ZoneIds : status[z] = 1 /\ toggles[CleanName(zones[z])] = "off"
    /\ \E z \in ZoneIds : toggles[CleanName(zones[z])] = "on"

\* C11: when no toggle that is on maps to a device zone, a cycle that passed
\* its preconditions returns after its first refresh: the refresh is all it
\* has awaited, no zone command and no power command were issued, the zones
\* that were on are on and the AC power is as it was.
NoEnabledToggle == \A k \in DOMAIN toggles : toggles[k] # "on"

PastFirstRefresh(l) ==
    /\ l.pc \notin {"idle", "refresh1", "refresh1_default", "raised"}
    /\ l.outcome \notin EarlyOutcomes

C11_NoControlledZonesAborts ==
    \A p \in Procs :
        (PastFirstRefresh(cyc[p]) /\ NoEnabledToggle)
            => /\ cyc[p].pc = "done"
               /\ cyc[p].outcome = "no_zones"
               /\ cyc[p].cmds = <<Cmd("refresh", 0, 0, "first")>>
               /\ power = cyc[p].snap[1]
               /\ status = cyc[p].snap[2]

\* every zone is on, the AC is on and the cycle has ended for want of zones
C11_Witness ==
    /\ cyc[1].pc = "done"
    /\ cyc[1].outcome = "no_zones"
    /\ NoEnabledToggle
    /\ \A z \in ZoneIds : status[z] = 1
    /\ power = AC_POWER_ON

\* C12: in a cycle with a non-empty controlled set, when the per-zone rules
\* are under way or over, the second refresh has been awaited; every zone
\* outside the controlled set that was on was commanded off before that
\* refresh, every command of a temperature rule comes after it, and no zone
\* outside the controlled set is on.
PositionOf(l, c) == CHOOSE k \in 1..Len(l.cmds) : l.cmds[k] = c

SecondRefresh == Cmd("refresh", 0, 0, "second")

PerZoneBegun(l) ==
    \/ l.pc \in {"zone_off", "notify_off", "zone_on", "notify_on", "refresh3",
                 "ac_off", "notify_ac_off", "ac_on", "notify_ac_on", "rule5_on"}
    \/ l.pc = "done" /\ l.outcome = "complete"

C12_ForcedOffBeforeRules ==
    \A p \in Procs :
        LET l == cyc[p]
        IN  PerZoneBegun(l) =>
              /\ l.ctl # {}
              /\ \E k \in 1..Len(l.cmds) : l.cmds[k] = SecondRefresh
              /\ \A z \in ZoneIds \ l.ctl :
                    /\ status[z] = 0
                    /\ l.snap[2][z] = 1 =>
                          \E k \in 1..(PositionOf(l, SecondRefresh) - 1) :
                              l.cmds[k] = Cmd("zone", z, 0, "forced")
              /\ \A k \in 1..Len(l.cmds) :
                    l.cmds[k].by \in {"rule1", "rule2", "rule3", "rule4", "rule5"}
                        => k > PositionOf(l, SecondRefresh)

\* a zone outside the controlled set was on and a temperature rule has acted
C12_Witness ==
    /\ PerZoneBegun(cyc[1])
    /\ \E z \in ZoneIds \ cyc[1].ctl : cyc[1].snap[2][z] = 1 /\ status[z] = 0
    /\ \E k \in 1..Len(cyc[1].cmds) : cyc[1].cmds[k].by = "rule2"

\* C13: when the aggregate rule has decided on the AC-off command (the call
\* of turn_off is pending), the AC is on, a controlled zone is on, and every
\* controlled zone that is on has a reading t with t >= d + H; a zone with
\* no sensor or no reading does not pass for one.
C13_AcOffOnlyWhenAllAbove ==
    \A p \in Procs :
        cyc[p].pc = "ac_off" =>
            /\ power = AC_POWER_ON
            /\ \E z \in cyc[p].ctl : status[z] = 1
            /\ \A z \in cyc[p].ctl : status[z] = 1 => HighZone(z)

\* the same with the zones that have no reading left out of the count
C13_AcOffReadingsAllAbove ==
    \A p \in Procs :
        cyc[p].pc = "ac_off" =>
            /\ power = AC_POWER_ON
            /\ \E z \in cyc[p].ctl : status[z] = 1
            /\ \A z \in cyc[p].ctl :
                  (status[z] = 1 /\ sensors[z] # <<>> /\ sensors[z][1] # <<>>)
                      => HighZone(z)

\* the AC was off when the cycle evaluated the aggregate rule: the cycle
\* either called turn_on, or called nothing and the AC is off
AcOffAtAggregate(l) ==
    IF PowerCmds(l) = <<>> THEN power = AC_POWER_OFF ELSE PowerCmds(l)[1].v = 1

\* C14: a complete cycle that found the AC off at the aggregate rule, with a
\* controlled zone (on or off) whose reading is then t <= d - L, has issued
\* exactly one power command, and it is turn_on.
C14_AcOnWhenZoneBelow ==
    \A p \in Procs :
        (/\ Completed(p)
         /\ AcOffAtAggregate(cyc[p])
         /\ \E z \in cyc[p].ctl : LowZone(z))
            => /\ Len(PowerCmds(cyc[p])) = 1
               /\ PowerCmds(cyc[p])[1].v = 1

\* the zone has no sensor, or its first sensor has no reading
NoReading(z) == sensors[z] = <<>> \/ sensors[z][1] = <<>>

PerZonePcs == {"zone_off", "notify_off", "zone_on", "notify_on"}

\* C15: a zone without a sensor or without a reading gets no command and no
\* notification from the per-zone rules and no exception leaves the handler
\* on its account; and in a complete cycle every controlled zone that has a
\* reading was evaluated: one that was off at t <= d - L was switched on by
\* the low rule, one that was on at t >= d + H with another controlled zone
\* on was switched off by the high rule.
C15_MissingReadingSkipped ==
    \A p \in Procs :
        LET l == cyc[p]
        IN  /\ \A z \in ZoneIds :
                  NoReading(z) =>
                      /\ \A k \in 1..Len(l.cmds) :
                            l.cmds[k].z = z => l.cmds[k].by \notin {"rule1", "rule2"}
                      /\ ~(l.pc \in PerZonePcs /\ l.i = z)
                      /\ ~(l.pc = "raised" /\ l.failed \in PerZonePcs /\ l.i = z)
            /\ Completed(p) =>
                  \A z \in l.ctl :
                      /\ (LowZone(z) /\ l.snap[2][z] = 0)
                            => Issued(l, "zone", z, 1)
                               /\ \E k \in 1..Len(l.cmds) :
                                      l.cmds[k] = Cmd("zone", z, 1, "rule2")
                      /\ (HighZone(z) /\ l.snap[2][z] = 1
                                      /\ Cardinality(StartActive(l)) > 1)
                            => \E k \in 1..Len(l.cmds) :
                                  l.cmds[k] = Cmd("zone", z, 0, "rule1")

\* the first controlled zone has no reading and the one after it was switched on
C15_Witness ==
    /\ Completed(1)
    /\ \E y, z \in cyc[1].ctl :
          /\ y < z
          /\ NoReading(y)
          /\ LowZone(z)
          /\ \E k \in 1..Len(cyc[1].cmds) : cyc[1].cmds[k] = Cmd("zone", z, 1, "rule2")
          /\ ~\E k \in 1..Len(cyc[1].cmds) :
                 cyc[1].cmds[k].z = y /\ cyc[1].cmds[k].by \in {"rule1", "rule2"}

\* the refresh of refresh point pc, as the record of the cycle names it
RefreshCmd(pc) ==
    Cmd("refresh", 0, 0,
        CASE pc \in {"refresh1", "refresh1_default"} -> "first"
          [] pc \in {"refresh2", "refresh2_default"} -> "second"
          [] pc \in {"refresh3", "refresh3_default"} -> "third")

\* C16: a cycle whose refresh raises TypeError on the force-refresh
\* parameter does not end on it: at that refresh point it awaits the
\* default refresh instead, having issued nothing in between, and when that
\* returns it goes on as after the forced refresh; the cycle issues the zone
\* commands, power commands and notifications, in the same order and up to
\* the same return, that it issues with a client that accepts the parameter.
C16_RefreshFallbackEquivalent ==
    /\ [](\A p \in Procs :
            LET l == cyc[p]
            IN  /\ l.pc # "raised"
                /\ (l.pc # "idle" /\ l.outcome \notin EarlyOutcomes) =>
                      LET ref == FaultFree(p)
                      IN  /\ IsPrefix(l.cmds, ref.cmds)
                          /\ l.pc = "done" =>
                                /\ l.cmds = ref.cmds
                                /\ l.outcome = ref.outcome)
    /\ [][\A p \in Procs :
            LET l == cyc[p]
                m == cyc'[p]
            IN  /\ (l.pc \in {"refresh1", "refresh2", "refresh3"}
                     /\ m.pc \in {"refresh1_default", "refresh2_default",
                                  "refresh3_default"}) =>
                       /\ m.cmds = l.cmds /\ m.ctl = l.ctl
                       /\ RefreshCmd(m.pc) = RefreshCmd(l.pc)
                       /\ power' = power /\ status' = status
                /\ (l.pc \in {"refresh1_default", "refresh2_default",
                              "refresh3_default"} /\ m # l) =>
                       /\ Len(m.cmds) > Len(l.cmds)
                       /\ m.cmds[Len(l.cmds) + 1] = RefreshCmd(l.pc)]_vars

\* the third refresh fell back after the cycle had issued a zone command
C16_Witness ==
    /\ cyc[1].pc = "refresh3_default"
    /\ \E k \in 1..Len(cyc[1].cmds) : cyc[1].cmds[k].op = "zone"

\* C17: the step that completes the third refresh and evaluates the
\* aggregate rule comes after every per-zone command, and what the rule
\* works on is what that refresh returned: the count is the number of
\* controlled zones then on, the below-low flag says whether a controlled
\* zone then reads t <= d - L, and the rule chosen fits the power then read.
C17_AggregateInputsFromReRead ==
    [][\A p \in Procs :
          (cyc[p].pc = "refresh3" /\ cyc'[p].pc \notin {"refresh3", "raised"})
              => /\ cyc'[p].count =
                        Cardinality({z \in cyc[p].ctl : status[z] = 1})
                 /\ cyc'[p].anyBelow = (\E z \in cyc[p].ctl : LowZone(z))
                 /\ cyc'[p].pc = "ac_off" => power = AC_POWER_ON
                 /\ cyc'[p].pc \in {"ac_on", "rule5_on"} => power = AC_POWER_OFF
                 /\ \A k \in 1..Len(cyc'[p].cmds) :
                        cyc'[p].cmds[k].by \in {"rule1", "rule2"}
                            => k < Len(cyc'[p].cmds)]_vars

\* C18: no cycle commands the same zone both off and on.
C18_NoOscillation ==
    \A p \in Procs : \A z \in ZoneIds :
        ~(Issued(cyc[p], "zone", z, 0) /\ Issued(cyc[p], "zone", z, 1))

\* C19: in a complete cycle called with a notify service, every zone command
\* and every power command is followed at once by a notification attempt
\* about it, and every notification attempt follows such a command.
C19_EveryChangeNotified ==
    \A p \in Procs :
        LET l == cyc[p]
        IN  (Completed(p) /\ l.notify) =>
              \A k \in 1..Len(l.cmds) :
                  /\ l.cmds[k].op \in {"zone", "power"} =>
                        /\ k < Len(l.cmds)
                        /\ l.cmds[k + 1].op = "notify"
                        /\ l.cmds[k + 1].z = l.cmds[k].z
                  /\ l.cmds[k].op = "notify" =>
                        /\ k > 1
                        /\ l.cmds[k - 1].op \in {"zone", "power"}

\* the same for the commands of the temperature rules and the power rules
C19_RuleChangesNotified ==
    \A p \in Procs :
        LET l == cyc[p]
        IN  (Completed(p) /\ l.notify) =>
              \A k \in 1..Len(l.cmds) :
                  /\ (l.cmds[k].op \in {"zone", "power"}
                          /\ l.cmds[k].by \notin {"forced", "rule5"}) =>
                        /\ k < Len(l.cmds)
                        /\ l.cmds[k + 1].op = "notify"
                        /\ l.cmds[k + 1].z = l.cmds[k].z
                  /\ l.cmds[k].op = "notify" =>
                        /\ k > 1
                        /\ l.cmds[k - 1].op \in {"zone", "power"}

\* the toggle whose ZONE_MAPPING entry is the zone's own switch is on
OwnToggleOn(z) ==
    \E k \in DOMAIN toggles :
        /\ ZONE_MAPPING[k] = CleanName(zones[z])
        /\ toggles[k] = "on"

\* C20: once a cycle has built its controlled set, the set holds exactly the
\* zones whose own toggle is on, also in an installation where the switch
\* name of one zone (attic) is contained in the name of another (attic_1).
C20_ControlledSetIsAllowList ==
    \A p \in Procs :
        PastFirstRefresh(cyc[p])
            => cyc[p].ctl = {z \in ZoneIds : OwnToggleOn(z)}

\* the loop a zone command belongs to: forced-off, per-zone rules, activation
PhaseOf(c) ==
    CASE c.by = "forced" -> 1
      [] c.by \in {"rule1", "rule2"} -> 2
      [] c.by = "rule5" -> 3
      [] OTHER -> 0

\* C21: what a cycle has awaited is the beginning of what the cycle started
\* from the same device state, toggles, readings and call awaits when it
\* runs to its end, and all of it when the cycle has returned; and the zone
\* commands of one loop are in the order of the zones' listing positions.
C21_DeterministicInListingOrder ==
    \A p \in Procs :
        LET l == cyc[p]
        IN  /\ (l.pc # "idle" /\ l.outcome \notin EarlyOutcomes) =>
                  LET ref == FaultFree(p)
                  IN  /\ IsPrefix(l.cmds, ref.cmds)
                      /\ l.pc = "done" => (l.cmds = ref.cmds /\ l.outcome = ref.outcome)
            /\ \A j, k \in 1..Len(l.cmds) :
                  (/\ j < k
                   /\ l.cmds[j].op = "zone" /\ l.cmds[k].op = "zone"
                   /\ PhaseOf(l.cmds[j]) = PhaseOf(l.cmds[k]))
                      => l.cmds[j].z < l.cmds[k].z

\* two zones were commanded in one loop
C21_Witness ==
    /\ Completed(1)
    /\ \E j, k \in 1..Len(cyc[1].cmds) :
          /\ j < k
          /\ cyc[1].cmds[j].op = "zone" /\ cyc[1].cmds[k].op = "zone"
          /\ PhaseOf(cyc[1].cmds[j]) = PhaseOf(cyc[1].cmds[k])
          /\ cyc[1].cmds[j].z < cyc[1].cmds[k].z

(***************************************************************************)
(* The services of climate.py.                                             *)
(***************************************************************************)
\* C22: set_zone_damper forwards a percentage to the device only when it is
\* an int in [0, 100] and the entity is a known one with an id, and
\* set_zone_temperature forwards a temperature only when it is an int in
\* [16, 32] and the entity is a known zone; a missing, non-int or
\* out-of-range value and a missing or unknown entity give no device command.
C22_OnlyValidRequestsForwarded ==
    LET req == svc.req
        sends(op) == \/ svc.pc = op
                     \/ \E j \in 1..Len(svc.sent) : svc.sent[j].op \in {"damper", "temperature"}
    IN  /\ (svc.op = "set_zone_damper" /\ sends("set_zone_damper")) =>
              /\ req.percentage.type = "int"
              /\ req.percentage.val >= 0 /\ req.percentage.val <= 100
              /\ req.entity.kind \notin {"absent", "unknown"}
              /\ req.entity.id \in 1..NZones
              /\ \A j \in 1..Len(svc.sent) :
                    svc.sent[j] = ApiCall("damper", req.entity.id, req.percentage.val, "")
        /\ (svc.op = "set_zone_temperature" /\ sends("set_zone_temperature")) =>
              /\ req.temperature.type = "int"
              /\ req.temperature.val >= 16 /\ req.temperature.val <= 32
              /\ req.entity.kind \notin {"absent", "unknown"}
              /\ req.entity.id \in 1..NZones
              /\ \A j \in 1..Len(svc.sent) :
                    svc.sent[j] = ApiCall("temperature", req.entity.id, req.temperature.val, "")
        /\ svc.op \notin {"set_zone_damper", "set_zone_temperature"} =>
              \A j \in 1..Len(svc.sent) : svc.sent[j].op \notin {"damper", "temperature"}

\* the largest percentage has been forwarded for a zone
C22_Witness ==
    /\ svc.op = "set_zone_damper" /\ svc.pc = "done"
    /\ svc.req.percentage = IntVal(100)
    /\ svc.sent = <<ApiCall("damper", svc.req.entity.id, 100, "")>>

\* C23: a cycle changes the device only through zone on/off commands and
\* through climate.turn_on / climate.turn_off: it awaits nothing but
\* refreshes, zone switches, the two climate services and notifications,
\* never a damper or a desired-temperature command; the set-points stay as
\* they are, a zone's status changes only by a zone command for that zone
\* and the AC power only by a climate service call of the cycle, in the
\* call or in the task it started.
C23_OnlyZoneAndPowerCommands ==
    [][\A p \in Procs :
         LET l == cyc[p]
             m == cyc'[p]
             n == Len(m.cmds)
         IN  /\ desired' = desired
             /\ \A k \in 1..n :
                   m.cmds[k].op \in {"refresh", "zone", "power", "notify"}
             /\ (m # l /\ cyc'[3 - p] = cyc[3 - p]) =>
                   /\ \A z \in 1..NZones :
                         status'[z] # status[z] =>
                           /\ n = Len(l.cmds) + 1
                           /\ m.cmds[n].op = "zone" /\ m.cmds[n].z = z
                           /\ m.cmds[n].v = status'[z]
                   /\ power' # power =>
                         /\ \/ l.pc \in {"ac_off", "ac_on"} /\ n = Len(l.cmds) + 1
                            \/ l.bg \in {"power_switch_off", "power_switch_on"} /\ m.bg = "none"
                         /\ \E k \in 1..n :
                               m.cmds[k].op = "power" /\ m.cmds[k].v = power']_vars

\* a complete cycle has switched a zone and the AC, the set-points are kept
C23_Witness ==
    /\ Completed(1)
    /\ \E k \in 1..Len(cyc[1].cmds) : cyc[1].cmds[k].op = "zone"
    /\ \E k \in 1..Len(cyc[1].cmds) : cyc[1].cmds[k].op = "power"
    /\ desired = [z \in 1..NZones |-> Desired0]

\* the on commands of the activation branch (lines 327-331)
Rule5Cmds(l) == SelectSeq(l.cmds, LAMBDA c : c.op = "zone" /\ c.by = "rule5")

\* C24: a cycle that reaches the aggregate rule with the AC off and no zone
\* marked below its low threshold awaits an on command for the first
\* controlled zone that is off after the re-read, and so on for each of them
\* in turn: every such command goes to a controlled zone that was off; when
\* the cycle is complete every controlled zone is on, the zones that were
\* off after the per-zone rules having been commanded on, and no power
\* command has been issued.
C24_Rule5TurnsOnControlledZones ==
    /\ [](\A p \in Procs :
            LET l == cyc[p]
            IN  (Completed(p) /\ l.snap[1] = AC_POWER_OFF /\ ~l.anyBelow) =>
                  /\ \A z \in l.ctl : status[z] = 1
                  /\ \A k \in 1..Len(l.cmds) : l.cmds[k].op # "power"
                  /\ \A z \in l.ctl : l.snap[2][z] = 0 => Issued(l, "zone", z, 1)
                  /\ \A k \in 1..Len(Rule5Cmds(l)) :
                        Rule5Cmds(l)[k].z \in l.ctl /\ Rule5Cmds(l)[k].v = 1)
    /\ [][\A p \in Procs :
            LET l == cyc[p]
                m == cyc'[p]
            IN  /\ (/\ l.pc = "refresh3" /\ Len(m.cmds) = Len(l.cmds) + 1
                     /\ m.cmds[Len(m.cmds)] = Cmd("refresh", 0, 0, "third")
                     /\ power = AC_POWER_OFF /\ ~l.anyBelow) =>
                       IF \E z \in l.ctl : status[z] = 0
                       THEN /\ m.pc = "rule5_on"
                            /\ m.i \in l.ctl /\ status[m.i] = 0
                            /\ \A y \in l.ctl : status[y] = 0 => m.i <= y
                       ELSE m.pc = "done" /\ m.outcome = "complete"
                /\ (l.pc = "rule5_on" /\ Len(Rule5Cmds(m)) = Len(Rule5Cmds(l)) + 1) =>
                       /\ status[l.i] = 0 /\ status'[l.i] = 1
                       /\ m.cmds[Len(m.cmds)] = Cmd("zone", l.i, 1, "rule5")
                       /\ power' = power]_vars

\* the activation branch has switched on every controlled zone, two of them
C24_Witness ==
    /\ Completed(1) /\ cyc[1].snap[1] = AC_POWER_OFF /\ ~cyc[1].anyBelow
    /\ Len(Rule5Cmds(cyc[1])) = 2
    /\ \A z \in cyc[1].ctl : status[z] = 1

\* the commands of the per-zone rules (lines 203 and 223) for zone z
PerZoneCmds(l, z) ==
    SelectSeq(l.cmds, LAMBDA c : c.op = "zone" /\ c.z = z /\ c.by \in {"rule1", "rule2"})

\* the reading t of the zone's first sensor exists and d - L < t < d + H
BetweenThresholds(z) ==
    /\ sensors[z] # <<>>
    /\ sensors[z][1] # <<>>
    /\ sensors[z][1][1] > desired[z] - TEMP_BELOW_THRESHOLD
    /\ sensors[z][1][1] < desired[z] + TEMP_ABOVE_THRESHOLD

\* C25: the per-zone rules decide on (t, d, status) with inclusive
\* boundaries.  A zone gets at most one command from the per-zone phase; an
\* off command only when it was on at t >= d + H, an on command only when it
\* was off at t <= d - L; none for d - L < t < d + H and none when it is
\* already in the state the rule would produce.  In a complete cycle a
\* controlled zone that was off at t = d - L has been commanded on, and one
\* that was on at t = d + H, another controlled zone being on, has been
\* commanded off.
C25_PerZoneRuleInclusive ==
    \A p \in Procs : \A z \in ZoneIds :
        LET l == cyc[p]
            c == PerZoneCmds(l, z)
        IN  /\ Len(c) <= 1
            /\ Len(c) = 1 =>
                  /\ z \in l.ctl
                  /\ c[1].v = 0 =>
                        /\ l.snap[2][z] = 1
                        /\ sensors[z] # <<>> /\ sensors[z][1] # <<>>
                        /\ sensors[z][1][1] >= desired[z] + TEMP_ABOVE_THRESHOLD
                  /\ c[1].v = 1 =>
                        /\ l.snap[2][z] = 0
                        /\ sensors[z] # <<>> /\ sensors[z][1] # <<>>
                        /\ sensors[z][1][1] <= desired[z] - TEMP_BELOW_THRESHOLD
            /\ BetweenThresholds(z) => c = <<>>
            /\ (Completed(p) /\ z \in l.ctl /\ sensors[z] = << <<desired[z] - TEMP_BELOW_THRESHOLD>> >>
                 /\ l.snap[2][z] = 0) => c = <<Cmd("zone", z, 1, "rule2")>>
            /\ (Completed(p) /\ z \in l.ctl /\ sensors[z] = << <<desired[z] + TEMP_ABOVE_THRESHOLD>> >>
                 /\ l.snap[2][z] = 1 /\ \E y \in l.ctl \ {z} : l.snap[2][y] = 1)
                    => c = <<Cmd("zone", z, 0, "rule1")>>

\* a zone at t = d + H was commanded off while the other, between the
\* thresholds, got no command
C25_Witness ==
    /\ Completed(1)
    /\ \E z, y \in cyc[1].ctl :
          /\ sensors[z] = << <<desired[z] + TEMP_ABOVE_THRESHOLD>> >>
          /\ PerZoneCmds(cyc[1], z) = <<Cmd("zone", z, 0, "rule1")>>
          /\ BetweenThresholds(y)
          /\ PerZoneCmds(cyc[1], y) = <<>>

\* the positions in the command log of the commands that satisfy test
PositionsOf(l, test(_)) == {k \in 1..Len(l.cmds) : test(l.cmds[k])}

IsLowZoneOn(c) == c.op = "zone" /\ c.v = 1 /\ c.by = "rule2"
IsAcOn(c) == c.op = "power" /\ c.v = 1
IsReRead(c) == c.op = "refresh" /\ c.by = "third"

\* C26: the AC-on command of a cycle comes after every zone-on command of
\* the low rule and after the re-read that follows them; and when the AC-on
\* command is about to be awaited or has been, every controlled zone that
\* was off at t <= d - L has already been commanded on.
C26_ZoneOnBeforeAcOn ==
    \A p \in Procs :
        LET l == cyc[p]
            acOn == PositionsOf(l, IsAcOn)
            zoneOn == PositionsOf(l, IsLowZoneOn)
            reRead == PositionsOf(l, IsReRead)
        IN  (l.pc \in {"ac_on", "notify_ac_on"} \/ acOn # {}) =>
              /\ \A a \in acOn :
                    /\ \A k \in zoneOn : k < a
                    /\ \E r \in reRead : r < a /\ \A k \in zoneOn : k < r
              /\ \A z \in l.ctl :
                    (l.snap[2][z] = 0 /\ LowZone(z)) =>
                        \E k \in zoneOn :
                            /\ l.cmds[k].z = z
                            /\ \E r \in reRead : k < r
                            /\ status[z] = 1

\* a complete cycle switched a cold zone on, re-read, then called turn_on
C26_Witness ==
    /\ Completed(1)
    /\ PositionsOf(cyc[1], IsLowZoneOn) # {}
    /\ PositionsOf(cyc[1], IsAcOn) # {}
    /\ power = AC_POWER_ON

\* C27: in any sequence of cycles, every on command of a cycle goes to a
\* zone of the controlled set that cycle computed, and a zone outside that
\* set is never switched on: when a zone's status changes, either the cycle
\* has just issued an on command for it and it is in the cycle's controlled
\* set, or it is switched off.
C27_OnOnlyForControlledZones ==
    /\ [](\A p \in Procs :
             \A k \in 1..Len(cyc[p].cmds) :
                 (cyc[p].cmds[k].op = "zone" /\ cyc[p].cmds[k].v = 1)
                     => cyc[p].cmds[k].z \in cyc[p].ctl)
    /\ [][\A z \in ZoneIds :
             status'[z] # status[z] =>
                 \/ status'[z] = 0
                 \/ \E p \in Procs :
                       LET m == cyc'[p]
                           n == Len(m.cmds)
                       IN  /\ z \in m.ctl
                           /\ n = Len(cyc[p].cmds) + 1
                           /\ m.cmds[n].op = "zone" /\ m.cmds[n].z = z
                           /\ m.cmds[n].v = 1]_vars

\* a complete cycle has switched a controlled zone on and has switched off,
\* and left off, a zone outside the controlled set
C27_Witness ==
    /\ Completed(1)
    /\ \E y \in cyc[1].ctl : Issued(cyc[1], "zone", y, 1) /\ status[y] = 1
    /\ \E z \in ZoneIds :
          /\ z \notin cyc[1].ctl
          /\ Issued(cyc[1], "zone", z, 0) /\ ~Issued(cyc[1], "zone", z, 1)
          /\ status[z] = 0

\* C28: the set_zone_temperature service always terminates: whatever the
\* device answers, a call that has entered the retry loop returns.
C28_SetZoneTemperatureTerminates ==
    (svc.pc = "set_zone_temperature") ~> (svc.pc = "done")

\* C29: turn_on awaits a power command only when the AC is off and
\* turn_off only when it is on, each for the AirTouch entity only; the
\* command is the one asked for and leaves the AC in that state.  So
\* turn_on called twice in a row (or turn_off twice) issues at most one
\* power command in all, and turn_off with the AC already off issues none.
C29_TurnOnOffIdempotent ==
    /\ [](svc.op \in {"turn_on", "turn_off"} =>
            LET v == IF svc.op = "turn_on" THEN AC_POWER_ON ELSE AC_POWER_OFF
            IN  /\ Len(svc.sent) <= 1
                /\ \A j \in 1..Len(svc.sent) :
                      svc.sent[j].op = "power" /\ svc.sent[j].v = v
                /\ (svc.pc = "done" /\ svc.sent # <<>>) => power = v
                /\ (svc.pc = "done" /\ svc.req.target = E_airtouch) => power = v
                /\ (svc.before.op = svc.op /\ svc.before.target = E_airtouch) =>
                      /\ svc.before.npower + Len(svc.sent) <= 1
                      /\ svc.req.target = E_airtouch => svc.pc = "done" /\ svc.sent = <<>>)
    /\ [][(svc' # svc /\ svc.pc \in {"idle", "done"}
            /\ svc'.op \in {"turn_on", "turn_off"}) =>
             LET v == IF svc'.op = "turn_on" THEN AC_POWER_ON ELSE AC_POWER_OFF
             IN  IF svc'.req.target = E_airtouch /\ power # v
                 THEN svc'.pc \in {"power_switch_on", "power_switch_off"}
                 ELSE svc'.pc = "done" /\ svc'.sent = <<>>]_vars

\* turn_on was called twice for the AirTouch entity, the first call switched
\* the AC on and the second issued nothing
C29_Witness ==
    /\ svc.op = "turn_on" /\ svc.pc = "done" /\ svc.req.target = E_airtouch
    /\ svc.before = [op |-> "turn_on", target |-> E_airtouch, npower |-> 1]
    /\ svc.sent = <<>>
    /\ power = AC_POWER_ON

\* C30: async_set_hvac_mode with the mode off awaits one power-off command,
\* whatever the power, and no set-mode command.  With any other mode it
\* awaits a power-on command first exactly when it finds the AC off, and
\* then the set-mode command for that mode, which is its last command: when
\* set_mode is awaited the AC is on.
C30_HvacModeOrdersByPower ==
    /\ [](svc.op = "set_hvac_mode" =>
            LET powerOn == ApiCall("power", 0, AC_POWER_ON, "")
                powerOff == ApiCall("power", 0, AC_POWER_OFF, "")
                setMode == ApiCall("mode", 0, 0, svc.req.mode)
            IN  /\ svc.req.mode = "off" =>
                      /\ svc.pc \in {"power_switch_off", "done"}
                      /\ svc.sent = IF svc.pc = "done" THEN <<powerOff>> ELSE <<>>
                      /\ svc.pc = "done" => power = AC_POWER_OFF
                /\ svc.req.mode # "off" =>
                      /\ svc.pc \in {"power_switch_on", "set_mode", "done"}
                      /\ svc.pc = "power_switch_on" =>
                            svc.sent = <<>> /\ power = AC_POWER_OFF
                      /\ svc.pc = "set_mode" =>
                            svc.sent \in {<<>>, <<powerOn>>} /\ power = AC_POWER_ON
                      /\ svc.pc = "done" =>
                            /\ svc.sent \in {<<setMode>>, <<powerOn, setMode>>}
                            /\ power = AC_POWER_ON)
    /\ [][(svc' # svc /\ svc.pc \in {"idle", "done"}
            /\ svc'.op = "set_hvac_mode" /\ svc'.req.mode # "off") =>
             (svc'.pc = "power_switch_on") = (power = AC_POWER_OFF)]_vars

\* the mode was set after the AC, found off, had been switched on
C30_Witness ==
    /\ svc.op = "set_hvac_mode" /\ svc.pc = "done"
    /\ svc.sent = <<ApiCall("power", 0, AC_POWER_ON, ""), ApiCall("mode", 0, 0, "heat")>>
    /\ power = AC_POWER_ON

====
